---- MODULE Spec2Model ----
(***************************************************************************)
(* A model of the titanium library: the Option and Result containers, their *)
(* synchronous combinators, their promise-backed asynchronous wrappers and  *)
(* the match engine.                                                        *)
(*                                                                          *)
(* Objects live in a heap so that reference identity (===) is observable:   *)
(* a container is a heap cell [cls, T, Val] exactly as the classes keep a   *)
(* tag this[T] and a payload this[Val]; a value is a flat record [k, n]     *)
(* that is a primitive or a reference into one of the heaps.                *)
(***************************************************************************)
EXTENDS Integers, Sequences, FiniteSets, TLC

VARIABLES
  heap,      \* containers, async containers and Error objects, by reference
  last,      \* the last synchronous call: what was called and what came out
  promises,  \* the promises, by number
  jobs,      \* the queue of promise jobs
  log,       \* the caller's callbacks that async code invoked, in order
  prog       \* the calls the asynchronous program made, in order

vars == <<heap, last, promises, jobs, log, prog>>

(***************************************************************************)
(* Bounds.                                                                  *)
(***************************************************************************)
MaxHeap == 3
MaxDepth == 3      \* nesting of a matched subject and of a mapped specification
MaxPairs == 2      \* [pattern, result] pairs of a chained specification
MaxCalls == 2      \* method calls the asynchronous program makes
MaxArgs == 3
MaxNest == 3
MaxElems == 2       \* arguments of all and any

(***************************************************************************)
(* Values.                                                                  *)
(***************************************************************************)
Num(n) == [k |-> "num", n |-> n]
Bool(b) == [k |-> "bool", n |-> IF b THEN 1 ELSE 0]
Str(n) == [k |-> "str", n |-> n]
Undefined == [k |-> "undefined", n |-> 0]
Null == [k |-> "null", n |-> 0]
NaN == [k |-> "NaN", n |-> 0]
Ref(i) == [k |-> "obj", n |-> i]
FnVal(name) == [k |-> name, n |-> 0]
\* the empty string, and Date objects (n = 1 valid, n = 0 invalid)
EmptyStr == Str(-5)
DateVal(valid) == [k |-> "date", n |-> IF valid THEN 1 ELSE 0]
ArrayVal(items) == [k |-> "array", n |-> 0, items |-> items]

IsRef(v) == v.k = "obj"
IsTrue(v) == v.k = "bool" /\ v.n = 1

Nums == {Num(0), Num(1)}

\* String(v) of the host language, on the values the model uses
StringOf(v) ==
  CASE v.k = "num" -> Str(v.n)
    [] v.k = "str" -> v
    [] v.k = "undefined" -> Str(-1)
    [] v.k = "null" -> Str(-2)
    [] v.k = "NaN" -> Str(-3)
    [] OTHER -> Str(-4)

(***************************************************************************)
(* Heap cells.                                                              *)
(***************************************************************************)
OptionType(val, some) == [cls |-> "OptionType", T |-> some, Val |-> val]
ResultType(val, ok) == [cls |-> "ResultType", T |-> ok, Val |-> val]
ErrorObj(msg) == [cls |-> "Error", T |-> FALSE, Val |-> msg]

\* const none = Object.freeze(new OptionType(undefined, false)): the first
\* object the module creates
none == 1

Alloc(h, obj) == [h |-> Append(h, obj), v |-> Ref(Len(h) + 1)]

IsOption(h, v) == IsRef(v) /\ h[v.n].cls = "OptionType"
IsResult(h, v) == IsRef(v) /\ h[v.n].cls = "ResultType"
IsError(h, v) == IsRef(v) /\ h[v.n].cls = "Error"

Options(h) == {i \in DOMAIN h : h[i].cls = "OptionType"}
Results(h) == {i \in DOMAIN h : h[i].cls = "ResultType"}

(***************************************************************************)
(* The outcome of a synchronous call: the heap it leaves, whether it        *)
(* returned or threw, the value returned or thrown, and the callbacks it    *)
(* invoked, in order.                                                       *)
(***************************************************************************)
Ret(h, v, calls) == [h |-> h, out |-> "ret", v |-> v, calls |-> calls]
Throw(h, v, calls) == [h |-> h, out |-> "throw", v |-> v, calls |-> calls]
Call(f, arg) == [f |-> f, arg |-> arg]
\* what a constructor built, as the outcome of the call
Plain(a) == Ret(a.h, a.v, <<>>)

(***************************************************************************)
(* Caller-supplied callbacks.  Each is a plain synchronous function.        *)
(***************************************************************************)

CallFn(h, f, v) ==
  CASE f = "inc" ->
         Ret(h, IF v.k = "num" THEN Num((v.n + 1) % 2) ELSE Num(0), <<>>)
    [] f = "isPos" -> Ret(h, Bool(v.k = "num" /\ v.n > 0), <<>>)
    [] f = "toSome" ->
         LET a == Alloc(h, OptionType(v, TRUE)) IN Ret(a.h, a.v, <<>>)
    [] f = "toNone" -> Ret(h, Ref(none), <<>>)
    [] f = "toOk" ->
         LET a == Alloc(h, ResultType(v, TRUE)) IN Ret(a.h, a.v, <<>>)
    [] f = "toErr" ->
         LET a == Alloc(h, ResultType(v, FALSE)) IN Ret(a.h, a.v, <<>>)
    [] f = "ret1" -> Ret(h, Num(1), <<>>)
    [] f = "throws" -> Throw(h, Num(0), <<>>)
    [] f = "noop" -> Ret(h, Undefined, <<>>)

\* A callback invoked and its outcome returned as it is
Invoke(h, f, v) == [CallFn(h, f, v) EXCEPT !.calls = <<Call(f, v)>>]

\* After a callback: continue with K on its return value, or let the throw
\* escape.  The callback is recorded as invoked either way.
AndThenDo(h, f, v, K(_, _, _)) ==
  LET r == CallFn(h, f, v) IN
    IF r.out = "throw" THEN Throw(r.h, r.v, <<Call(f, v)>>)
    ELSE K(r.h, r.v, <<Call(f, v)>>)

(***************************************************************************)
(* class OptionType<T>: the synchronous surface.  this is a heap index.     *)
(***************************************************************************)
Option_isSome(h, this) == h[this].T

Option_isNone(h, this) == ~h[this].T

Option_isSomeAnd(h, this, f) ==
  IF h[this].T THEN Invoke(h, f, h[this].Val)
  ELSE Ret(h, Bool(FALSE), <<>>)

\* a filter that empties the receiver in place instead of returning none
Option_filterInPlace(h, this, f) ==
  IF h[this].T
  THEN LET K(h2, v, c) ==
             IF IsTrue(v) THEN Ret(h2, Ref(this), c)
             ELSE Ret([h2 EXCEPT ![this] = OptionType(Undefined, FALSE)], Ref(this), c)
       IN AndThenDo(h, f, h[this].Val, K)
  ELSE Ret(h, Ref(none), <<>>)

Option_filter(h, this, f) ==
  IF h[this].T
  THEN LET K(h2, v, c) == Ret(h2, IF IsTrue(v) THEN Ref(this) ELSE Ref(none), c)
       IN AndThenDo(h, f, h[this].Val, K)
  ELSE Ret(h, Ref(none), <<>>)

\* a flatten that removes two levels where it finds them
Option_flattenDeep(h, this) ==
  Ret(h, IF ~h[this].T THEN Ref(none)
         ELSE IF IsOption(h, h[this].Val) /\ h[h[this].Val.n].T THEN h[h[this].Val.n].Val
         ELSE h[this].Val, <<>>)

Option_flatten(h, this) ==
  Ret(h, IF h[this].T THEN h[this].Val ELSE Ref(none), <<>>)

\* an expect that throws the message of unwrap
Option_expectFixedMessage(h, this, msg) ==
  IF h[this].T THEN Ret(h, h[this].Val, <<>>)
  ELSE LET a == Alloc(h, ErrorObj(Str(-10))) IN Throw(a.h, a.v, <<>>)

Option_expect(h, this, msg) ==
  IF h[this].T THEN Ret(h, h[this].Val, <<>>)
  ELSE LET a == Alloc(h, ErrorObj(msg)) IN Throw(a.h, a.v, <<>>)

\* the message "expected Some, got None"
EmptyValueMsg == Str(-10)

Option_unwrap(h, this) ==
  IF h[this].T THEN Ret(h, h[this].Val, <<>>)
  ELSE LET a == Alloc(h, ErrorObj(EmptyValueMsg)) IN Throw(a.h, a.v, <<>>)

Option_unwrapOr(h, this, def) ==
  Ret(h, IF h[this].T THEN h[this].Val ELSE def, <<>>)

Option_unwrapOrElse(h, this, f) ==
  IF h[this].T THEN Ret(h, h[this].Val, <<>>)
  ELSE Invoke(h, f, Undefined)

Option_unwrapUnchecked(h, this) == Ret(h, h[this].Val, <<>>)

Option_or(h, this, optb) ==
  Ret(h, IF h[this].T THEN Ref(this) ELSE optb, <<>>)

\* an orElse that invokes f whatever the receiver is
Option_orElseAlways(h, this, f) == Invoke(h, f, Undefined)

Option_orElse(h, this, f) ==
  IF h[this].T THEN Ret(h, Ref(this), <<>>)
  ELSE Invoke(h, f, Undefined)

\* an and that keeps the receiver when it is Some
Option_andKeepsFirst(h, this, optb) ==
  Ret(h, IF h[this].T THEN Ref(this) ELSE Ref(none), <<>>)

Option_and(h, this, optb) ==
  Ret(h, IF h[this].T THEN optb ELSE Ref(none), <<>>)

Option_andThen(h, this, f) ==
  IF h[this].T
  THEN Invoke(h, f, h[this].Val)
  ELSE Ret(h, Ref(none), <<>>)

\* a map that builds a new empty container for an empty receiver
Option_mapFreshNone(h, this, f) ==
  LET K(h2, v, c) == LET a == Alloc(h2, OptionType(v, h[this].T)) IN Ret(a.h, a.v, c)
  IN IF h[this].T THEN AndThenDo(h, f, h[this].Val, K)
     ELSE K(h, Undefined, <<>>)

Option_map(h, this, f) ==
  IF h[this].T
  THEN LET K(h2, v, c) ==
             LET a == Alloc(h2, OptionType(v, TRUE)) IN Ret(a.h, a.v, c)
       IN AndThenDo(h, f, h[this].Val, K)
  ELSE Ret(h, Ref(none), <<>>)

\* Result.ok / Result.err, as okOr uses them
Ok(h, val) == Alloc(h, ResultType(val, TRUE))

Err(h, val) == Alloc(h, ResultType(val, FALSE))

Option_okOr(h, this, err) ==
  LET a == IF h[this].T THEN Ok(h, h[this].Val) ELSE Err(h, err)
  IN Ret(a.h, a.v, <<>>)

Option_okOrElse(h, this, f) ==
  IF h[this].T THEN LET a == Ok(h, h[this].Val) IN Ret(a.h, a.v, <<>>)
  ELSE LET K(h2, v, c) == LET a == Err(h2, v) IN Ret(a.h, a.v, c)
       IN AndThenDo(h, f, Undefined, K)

\* an inspect that calls f whatever the receiver is
Option_inspectAlways(h, this, f) ==
  LET K(h2, v, c) == Ret(h2, Ref(this), c)
  IN AndThenDo(h, f, h[this].Val, K)

Option_inspect(h, this, f) ==
  IF h[this].T
  THEN LET K(h2, v, c) == Ret(h2, Ref(this), c)
       IN AndThenDo(h, f, h[this].Val, K)
  ELSE Ret(h, Ref(this), <<>>)

(***************************************************************************)
(* class ResultType<T, E>: the synchronous surface.                         *)
(***************************************************************************)
\* function toError(err)
toError(h, err) ==
  IF IsError(h, err) THEN [h |-> h, v |-> err]
  ELSE Alloc(h, ErrorObj(StringOf(err)))

\* Some(...) and None as result.ts imports them from ./option
Some(h, val) == Alloc(h, OptionType(val, TRUE))

Result_isOk(h, this) == h[this].T

Result_isErr(h, this) == ~h[this].T

Result_isOkAnd(h, this, f) ==
  IF h[this].T THEN Invoke(h, f, h[this].Val) ELSE Ret(h, Bool(FALSE), <<>>)

Result_isErrAnd(h, this, f) ==
  IF ~h[this].T THEN Invoke(h, f, h[this].Val) ELSE Ret(h, Bool(FALSE), <<>>)

Result_filter(h, this, f) ==
  IF h[this].T
  THEN LET K(h2, v, c) ==
             IF IsTrue(v)
             THEN LET a == Some(h2, h[this].Val) IN Ret(a.h, a.v, c)
             ELSE Ret(h2, Ref(none), c)
       IN AndThenDo(h, f, h[this].Val, K)
  ELSE Ret(h, Ref(none), <<>>)

Result_flatten(h, this) ==
  Ret(h, IF h[this].T THEN h[this].Val ELSE Ref(this), <<>>)

\* an unwrap that throws the payload as it is
Result_unwrapRaw(h, this) ==
  IF h[this].T THEN Ret(h, h[this].Val, <<>>) ELSE Throw(h, h[this].Val, <<>>)

Result_unwrap(h, this) ==
  IF h[this].T THEN Ret(h, h[this].Val, <<>>)
  ELSE LET e == toError(h, h[this].Val) IN Throw(e.h, e.v, <<>>)

Result_unwrapErr(h, this) ==
  IF ~h[this].T THEN Ret(h, h[this].Val, <<>>)
  ELSE LET e == toError(h, h[this].Val) IN Throw(e.h, e.v, <<>>)

Result_unwrapOr(h, this, def) ==
  Ret(h, IF h[this].T THEN h[this].Val ELSE def, <<>>)

Result_unwrapOrElse(h, this, f) ==
  IF h[this].T THEN Ret(h, h[this].Val, <<>>) ELSE Invoke(h, f, h[this].Val)

Result_unwrapUnchecked(h, this) == Ret(h, h[this].Val, <<>>)

Result_or(h, this, resb) ==
  Ret(h, IF h[this].T THEN Ref(this) ELSE resb, <<>>)

Result_orElse(h, this, f) ==
  IF h[this].T THEN Ret(h, Ref(this), <<>>) ELSE Invoke(h, f, h[this].Val)

Result_and(h, this, resb) ==
  Ret(h, IF h[this].T THEN resb ELSE Ref(this), <<>>)

Result_andThen(h, this, f) ==
  IF h[this].T THEN Invoke(h, f, h[this].Val) ELSE Ret(h, Ref(this), <<>>)

\* a map that applies f to the payload of either side
Result_mapBothSides(h, this, f) ==
  LET K(h2, v, c) ==
        LET a == Alloc(h2, ResultType(v, h[this].T)) IN Ret(a.h, a.v, c)
  IN AndThenDo(h, f, h[this].Val, K)

Result_map(h, this, f) ==
  IF h[this].T
  THEN LET K(h2, v, c) ==
             LET a == Alloc(h2, ResultType(v, h[this].T)) IN Ret(a.h, a.v, c)
       IN AndThenDo(h, f, h[this].Val, K)
  ELSE LET a == Alloc(h, ResultType(h[this].Val, h[this].T))
       IN Ret(a.h, a.v, <<>>)

Result_mapErr(h, this, op) ==
  IF h[this].T
  THEN LET a == Alloc(h, ResultType(h[this].Val, h[this].T))
       IN Ret(a.h, a.v, <<>>)
  ELSE LET K(h2, v, c) ==
             LET a == Alloc(h2, ResultType(v, h[this].T)) IN Ret(a.h, a.v, c)
       IN AndThenDo(h, op, h[this].Val, K)

\* an ok() that keeps the error payload as a Some
Result_okKeepsErr(h, this) ==
  LET a == Some(h, h[this].Val) IN Ret(a.h, a.v, <<>>)

Result_ok(h, this) ==
  IF h[this].T THEN LET a == Some(h, h[this].Val) IN Ret(a.h, a.v, <<>>)
  ELSE Ret(h, Ref(none), <<>>)

Result_inspect(h, this, f) ==
  IF h[this].T
  THEN LET K(h2, v, c) == Ret(h2, Ref(this), c)
       IN AndThenDo(h, f, h[this].Val, K)
  ELSE Ret(h, Ref(this), <<>>)

Result_inspectErr(h, this, f) ==
  IF ~h[this].T
  THEN LET K(h2, v, c) == Ret(h2, Ref(this), c)
       IN AndThenDo(h, f, h[this].Val, K)
  ELSE Ret(h, Ref(this), <<>>)

(***************************************************************************)
(* Constructors and aggregates.                                             *)
(***************************************************************************)
\* function some(val)
some(h, val) == Alloc(h, OptionType(val, TRUE))

\* isTruthy(val) of ./common: a Date is truthy when it is valid, anything
\* else when !!val
isTruthy(val) ==
  CASE val.k = "date" -> val.n = 1
    [] val.k = "num" -> val.n # 0
    [] val.k = "bool" -> val.n = 1
    [] val.k = "str" -> val # EmptyStr
    [] val.k \in {"undefined", "null", "NaN"} -> FALSE
    [] OTHER -> TRUE

\* Option.from(val)
Option_from(h, val) ==
  IF isTruthy(val) /\ ~IsError(h, val) THEN some(h, val)
  ELSE [h |-> h, v |-> Ref(none)]

\* a nonNull that turns away every falsey value
Option_nonNullFalsey(h, val) ==
  IF isTruthy(val) \/ val.k = "date" THEN some(h, val) ELSE [h |-> h, v |-> Ref(none)]

\* Option.nonNull(val): val === undefined || val === null || val !== val
Option_nonNull(h, val) ==
  IF val.k \in {"undefined", "null", "NaN"} THEN [h |-> h, v |-> Ref(none)]
  ELSE some(h, val)

\* Option.safe(fn) with a function: try { return some(fn()) } catch { return none }
Option_safe(h, fn) ==
  LET r == CallFn(h, fn, Undefined) IN
    IF r.out = "throw" THEN Ret(r.h, Ref(none), <<Call(fn, Undefined)>>)
    ELSE LET a == some(r.h, r.v) IN Ret(a.h, a.v, <<Call(fn, Undefined)>>)

\* Result.safe(fn, mapErr?) with a function; mapErr = "undefined" when absent
Result_safe(h, fn, mapErr) ==
  LET r == CallFn(h, fn, Undefined) IN
    IF r.out = "throw"
    THEN IF mapErr = "undefined"
         THEN LET e == toError(r.h, r.v)
                  a == Err(e.h, e.v)
              IN Ret(a.h, a.v, <<Call(fn, Undefined)>>)
         ELSE LET m == CallFn(r.h, mapErr, r.v) IN
                IF m.out = "throw"
                THEN Throw(m.h, m.v, <<Call(fn, Undefined), Call(mapErr, r.v)>>)
                ELSE LET a == Err(m.h, m.v)
                     IN Ret(a.h, a.v, <<Call(fn, Undefined), Call(mapErr, r.v)>>)
    ELSE LET a == Ok(r.h, r.v) IN Ret(a.h, a.v, <<Call(fn, Undefined)>>)

\* Option.all(...options): the loop over the arguments
RECURSIVE Option_allFrom(_, _, _, _)
Option_allFrom(h, options, i, values) ==
  IF i > Len(options)
  THEN LET a == some(h, ArrayVal(values)) IN Ret(a.h, a.v, <<>>)
  ELSE IF Option_isSome(h, options[i])
       THEN Option_allFrom(h, options, i + 1, Append(values, h[options[i]].Val))
       ELSE Ret(h, Ref(none), <<>>)

Option_all(h, options) == Option_allFrom(h, options, 1, <<>>)

\* Option.any(...options)
RECURSIVE Option_anyFrom(_, _, _)
Option_anyFrom(h, options, i) ==
  IF i > Len(options) THEN Ret(h, Ref(none), <<>>)
  ELSE IF Option_isSome(h, options[i]) THEN Ret(h, Ref(options[i]), <<>>)
       ELSE Option_anyFrom(h, options, i + 1)

Option_any(h, options) == Option_anyFrom(h, options, 1)

(***************************************************************************)
(* [Symbol.iterator]() of both classes.  An array iterator is an object     *)
(* holding the array and the index of the element next() gives next.        *)
(***************************************************************************)
ArrayIterator(items, i) ==
  [cls |-> "ArrayIterator", T |-> FALSE, Val |-> [k |-> "array", n |-> i, items |-> items]]

\* the message of the TypeError for val[Symbol.iterator]() on a value without
\* that method, "... is not a function", and on undefined and null, which
\* have no properties to read
NotAFunctionMsg(val) == IF val.k \in {"undefined", "null"} THEN Str(-8) ELSE Str(-7)

\* EmptyArray[Symbol.iterator]()
EmptyIterator(h) == Plain(Alloc(h, ArrayIterator(<<>>, 1)))

RECURSIVE SymbolIterator(_, _)

Option_iterator(h, this) ==
  IF h[this].T THEN SymbolIterator(h, h[this].Val) ELSE EmptyIterator(h)

Result_iterator(h, this) ==
  IF h[this].T THEN SymbolIterator(h, h[this].Val) ELSE EmptyIterator(h)

\* a [Symbol.iterator]() that gives an empty iterator for a value that has
\* no such method
SymbolIteratorLenient(h, val) ==
  CASE IsOption(h, val) -> Option_iterator(h, val.n)
    [] IsResult(h, val) -> Result_iterator(h, val.n)
    [] val.k = "array" -> Plain(Alloc(h, ArrayIterator(val.items, 1)))
    [] OTHER -> EmptyIterator(h)

\* (val as any)[Symbol.iterator](): the method of the value's class, or a
\* TypeError where the value has none
SymbolIterator(h, val) ==
  CASE IsOption(h, val) -> Option_iterator(h, val.n)
    [] IsResult(h, val) -> Result_iterator(h, val.n)
    [] val.k = "array" -> Plain(Alloc(h, ArrayIterator(val.items, 1)))
    [] OTHER -> LET a == Alloc(h, ErrorObj(NotAFunctionMsg(val))) IN Throw(a.h, a.v, <<>>)

\* iter.next() of an array iterator: { value, done }, and the index moved on
IteratorNext(h, iter) ==
  LET it == h[iter].Val IN
    IF it.n <= Len(it.items)
    THEN [h |-> [h EXCEPT ![iter] = ArrayIterator(it.items, it.n + 1)],
          value |-> it.items[it.n], done |-> FALSE]
    ELSE [h |-> h, value |-> Undefined, done |-> TRUE]

\* a Result.all that goes on past an Err and returns the last one it met
RECURSIVE Result_allKeepGoing(_, _, _, _)
Result_allKeepGoing(h, results, i, ok) ==
  IF i > Len(results)
  THEN IF \E j \in 1..Len(results) : ~h[results[j]].T
       THEN Ret(h, Ref(results[CHOOSE j \in 1..Len(results) :
                                 /\ ~h[results[j]].T
                                 /\ \A l \in 1..Len(results) : ~h[results[l]].T => l <= j]), <<>>)
       ELSE LET a == Ok(h, ArrayVal(ok)) IN Ret(a.h, a.v, <<>>)
  ELSE Result_allKeepGoing(h, results, i + 1, Append(ok, h[results[i]].Val))

\* Result.all(...results): the loop over the arguments
RECURSIVE Result_allFrom(_, _, _, _)
Result_allFrom(h, results, i, ok) ==
  IF i > Len(results)
  THEN LET a == Ok(h, ArrayVal(ok)) IN Ret(a.h, a.v, <<>>)
  ELSE IF Result_isOk(h, results[i])
       THEN Result_allFrom(h, results, i + 1,
                           Append(ok, Result_unwrapUnchecked(h, results[i]).v))
       ELSE Ret(h, Ref(results[i]), <<>>)

Result_all(h, results) == Result_allFrom(h, results, 1, <<>>)

\* a Result.any that collects the errors last first
RECURSIVE Result_anyReversed(_, _, _, _)
Result_anyReversed(h, results, i, err) ==
  IF i > Len(results)
  THEN LET a == Err(h, ArrayVal(err)) IN Ret(a.h, a.v, <<>>)
  ELSE IF Result_isOk(h, results[i]) THEN Ret(h, Ref(results[i]), <<>>)
       ELSE Result_anyReversed(h, results, i + 1, <<h[results[i]].Val>> \o err)

\* Result.any(...results): the loop over the arguments
RECURSIVE Result_anyFrom(_, _, _, _)
Result_anyFrom(h, results, i, err) ==
  IF i > Len(results)
  THEN LET a == Err(h, ArrayVal(err)) IN Ret(a.h, a.v, <<>>)
  ELSE IF Result_isOk(h, results[i]) THEN Ret(h, Ref(results[i]), <<>>)
       ELSE Result_anyFrom(h, results, i + 1,
                           Append(err, Result_unwrapUnchecked(h, results[i]).v))

Result_any(h, results) == Result_anyFrom(h, results, 1, <<>>)

(***************************************************************************)
(* Promises.  A promise is pending, fulfilled or rejected; while pending it *)
(* keeps the reactions registered by then, and settling it queues one job   *)
(* per reaction.  Jobs run one at a time, first in first out.  A machine m  *)
(* is the heap h, the promises ps, the job queue jobs and the log of the    *)
(* caller's callbacks invoked so far.                                       *)
(***************************************************************************)
Promise(id) == [k |-> "promise", n |-> id]
\* handled: some then has been called on the promise, so its rejection is not
\* reported as unhandled
Pending ==
  [state |-> "pending", value |-> Undefined, reactions |-> <<>>, handled |-> FALSE]

\* a function handed to then, as a value: written in option.ts or result.ts,
\* or one of the two resolving functions of a promise; then called without a
\* function passes the settlement on
Lambda(of, code, env) == [of |-> of, code |-> code, env |-> env]
NoHandler == Lambda("promise", "undefined", Undefined)
\* an argument that is a function of the caller, plain or promise-returning
FnArg(name, promise) == [k |-> "fn", n |-> 0, name |-> name, promise |-> promise]

\* new Promise(...)
NewPromise(m) ==
  [m |-> [m EXCEPT !.ps = Append(@, Pending)], v |-> Promise(Len(m.ps) + 1)]

\* the job of one reaction of a promise settled as state with v
ReactionJob(r, state, v) ==
  [type |-> "reaction", handler |-> IF state = "fulfilled" THEN r.onF ELSE r.onR,
   state |-> state, arg |-> v, target |-> r.target]

\* fulfil or reject promise p; a promise settles once
SettlePromise(m, p, state, v) ==
  IF m.ps[p].state # "pending" THEN m
  ELSE [m EXCEPT
          !.ps[p] = [state |-> state, value |-> v, reactions |-> <<>>,
                     handled |-> m.ps[p].handled],
          !.jobs = @ \o [i \in 1..Len(m.ps[p].reactions) |->
                           ReactionJob(m.ps[p].reactions[i], state, v)]]

\* values with a then method: promises and the async containers
IsThenable(m, v) ==
  v.k = "promise" \/ (IsRef(v) /\ m.h[v.n].cls \in {"OptionTypeAsync", "ResultTypeAsync"})

\* the resolve function of p called with x: a thenable is followed in a later job
ResolvePromise(m, p, x) ==
  IF IsThenable(m, x)
  THEN [m EXCEPT !.jobs = Append(@, [type |-> "thenable", thenable |-> x, target |-> p])]
  ELSE SettlePromise(m, p, "fulfilled", x)

\* p.then(onF, onR): the derived promise
Then(m, p, onF, onR) ==
  LET n == NewPromise(m)
      r == [onF |-> onF, onR |-> onR, target |-> n.v.n]
  IN IF m.ps[p].state = "pending"
     THEN [m |-> [n.m EXCEPT !.ps[p].reactions = Append(@, r),
                             !.ps[p].handled = TRUE], v |-> n.v]
     ELSE [m |-> [n.m EXCEPT !.jobs =
                    Append(@, ReactionJob(r, m.ps[p].state, m.ps[p].value)),
                             !.ps[p].handled = TRUE],
           v |-> n.v]

\* Promise.resolve(x)
PromiseResolve(m, x) ==
  IF x.k = "promise" THEN [m |-> m, v |-> x]
  ELSE LET n == NewPromise(m) IN [m |-> ResolvePromise(n.m, n.v.n, x), v |-> n.v]

\* f(v) for a function f of the caller: f.name computes the result, which comes
\* back as it is or, for a promise-returning f, in a promise; the call is logged
\* under the site of the program call that passed f
Apply(m, f, v) ==
  LET r == CallFn(m.h, f.name, v)
      m1 == [m EXCEPT !.h = r.h,
                      !.log = Append(@, [site |-> f.site, f |-> f.name, arg |-> v])]
  IN IF f.promise THEN PromiseResolve(m1, r.v) ELSE [m |-> m1, v |-> r.v]

\* the arrow async (val) => f(val) called with v
AsyncArrow(m, f, v) ==
  LET n == NewPromise(m)
      r == Apply(n.m, f, v)
  IN [m |-> ResolvePromise(r.m, n.v.n, r.v), v |-> n.v]

(***************************************************************************)
(* The async containers: heap cells holding the promise given at            *)
(* construction.                                                            *)
(***************************************************************************)
OptionTypeAsync(producer) == [cls |-> "OptionTypeAsync", Prom |-> producer]
ResultTypeAsync(producer) == [cls |-> "ResultTypeAsync", Prom |-> producer]

NewAsync(m, cell) ==
  LET a == Alloc(m.h, cell) IN [m |-> [m EXCEPT !.h = a.h], v |-> a.v]

\* a then that, given no onFailure, turns a rejection into None
Async_thenRecovering(m, this, onSuccess, onFailure) ==
  Then(m, m.h[this].Prom.n, onSuccess,
       IF onFailure.code = "undefined" THEN Lambda("option", "none", Undefined)
       ELSE onFailure)

\* then(onSuccess, onFailure) { return this[Prom].then(onSuccess, onFailure) }
Async_then(m, this, onSuccess, onFailure) ==
  Then(m, m.h[this].Prom.n, onSuccess, onFailure)

(***************************************************************************)
(* OptionType: the methods returning promises and async containers.  f is   *)
(* the async arrow the OptionTypeAsync method of the same name passes.      *)
(***************************************************************************)
Option_isSomeAndAsync(m, this, f) ==
  LET n == NewPromise(m) IN
    IF ~m.h[this].T THEN [m |-> ResolvePromise(n.m, n.v.n, Bool(FALSE)), v |-> n.v]
    ELSE LET c == AsyncArrow(n.m, f, m.h[this].Val)
         IN [m |-> ResolvePromise(c.m, n.v.n, c.v), v |-> n.v]

Option_filterAsync(m, this, f) ==
  IF ~m.h[this].T
  THEN LET p == PromiseResolve(m, Ref(this)) IN NewAsync(p.m, OptionTypeAsync(p.v))
  ELSE LET c == AsyncArrow(m, f, m.h[this].Val)
           t == Then(c.m, c.v.n, Lambda("option", "pass", Ref(this)), NoHandler)
       IN NewAsync(t.m, OptionTypeAsync(t.v))

Option_orAsync(m, this, optb) ==
  IF ~m.h[this].T THEN [m |-> m, v |-> optb]
  ELSE LET p == PromiseResolve(m, Ref(this)) IN NewAsync(p.m, OptionTypeAsync(p.v))

Option_orElseAsync(m, this, f) ==
  IF ~m.h[this].T
  THEN LET c == AsyncArrow(m, f, Undefined) IN NewAsync(c.m, OptionTypeAsync(c.v))
  ELSE LET p == PromiseResolve(m, Ref(this)) IN NewAsync(p.m, OptionTypeAsync(p.v))

Option_andAsync(m, this, optb) ==
  IF m.h[this].T THEN [m |-> m, v |-> optb]
  ELSE LET p == PromiseResolve(m, Ref(this)) IN NewAsync(p.m, OptionTypeAsync(p.v))

\* an andThenAsync that calls f whatever the receiver holds
Option_andThenAsyncAlways(m, this, f) ==
  LET c == AsyncArrow(m, f, m.h[this].Val) IN NewAsync(c.m, OptionTypeAsync(c.v))

Option_andThenAsync(m, this, f) ==
  IF m.h[this].T
  THEN LET c == AsyncArrow(m, f, m.h[this].Val) IN NewAsync(c.m, OptionTypeAsync(c.v))
  ELSE LET p == PromiseResolve(m, Ref(this)) IN NewAsync(p.m, OptionTypeAsync(p.v))

Option_mapAsync(m, this, f) ==
  IF ~m.h[this].T
  THEN LET p == PromiseResolve(m, Ref(none)) IN NewAsync(p.m, OptionTypeAsync(p.v))
  ELSE LET c == AsyncArrow(m, f, m.h[this].Val)
           t == Then(c.m, c.v.n, Lambda("option", "some", Undefined), NoHandler)
       IN NewAsync(t.m, OptionTypeAsync(t.v))

(***************************************************************************)
(* ResultType: the methods returning async containers.                      *)
(***************************************************************************)
Result_filterAsync(m, this, f) ==
  IF ~m.h[this].T
  THEN LET p == PromiseResolve(m, Ref(none)) IN NewAsync(p.m, OptionTypeAsync(p.v))
  ELSE LET c == AsyncArrow(m, f, m.h[this].Val)
           t == Then(c.m, c.v.n, Lambda("result", "valid", m.h[this].Val), NoHandler)
       IN NewAsync(t.m, OptionTypeAsync(t.v))

Result_orAsync(m, this, resb) ==
  IF ~m.h[this].T THEN [m |-> m, v |-> resb]
  ELSE LET p == PromiseResolve(m, Ref(this)) IN NewAsync(p.m, ResultTypeAsync(p.v))

Result_orElseAsync(m, this, f) ==
  IF ~m.h[this].T
  THEN LET c == AsyncArrow(m, f, m.h[this].Val) IN NewAsync(c.m, ResultTypeAsync(c.v))
  ELSE LET p == PromiseResolve(m, Ref(this)) IN NewAsync(p.m, ResultTypeAsync(p.v))

\* an andAsync that hands over resb whatever the receiver holds
Result_andAsyncAlways(m, this, resb) == [m |-> m, v |-> resb]

Result_andAsync(m, this, resb) ==
  IF m.h[this].T THEN [m |-> m, v |-> resb]
  ELSE LET p == PromiseResolve(m, Ref(this)) IN NewAsync(p.m, ResultTypeAsync(p.v))

Result_andThenAsync(m, this, f) ==
  IF m.h[this].T
  THEN LET c == AsyncArrow(m, f, m.h[this].Val) IN NewAsync(c.m, ResultTypeAsync(c.v))
  ELSE LET p == PromiseResolve(m, Ref(this)) IN NewAsync(p.m, ResultTypeAsync(p.v))

\* a mapAsync that maps the payload of an Err too
Result_mapAsyncBothSides(m, this, f) ==
  LET c == AsyncArrow(m, f, m.h[this].Val)
      t == Then(c.m, c.v.n, Lambda("result", "Ok", Undefined), NoHandler)
  IN NewAsync(t.m, ResultTypeAsync(t.v))

Result_mapAsync(m, this, f) ==
  IF ~m.h[this].T
  THEN LET p == PromiseResolve(m, Ref(this)) IN NewAsync(p.m, ResultTypeAsync(p.v))
  ELSE LET c == AsyncArrow(m, f, m.h[this].Val)
           t == Then(c.m, c.v.n, Lambda("result", "Ok", Undefined), NoHandler)
       IN NewAsync(t.m, ResultTypeAsync(t.v))

Result_mapErrAsync(m, this, op) ==
  IF m.h[this].T
  THEN LET p == PromiseResolve(m, Ref(this)) IN NewAsync(p.m, ResultTypeAsync(p.v))
  ELSE LET c == AsyncArrow(m, op, m.h[this].Val)
           t == Then(c.m, c.v.n, Lambda("result", "Err", Undefined), NoHandler)
       IN NewAsync(t.m, ResultTypeAsync(t.v))

(***************************************************************************)
(* The functions option.ts and result.ts hand to then, run by a job with    *)
(* the value x the promise settled with.  The outcome is a machine with     *)
(* what the function returned or threw.                                     *)
(***************************************************************************)
\* the outcome of a synchronous method called inside a function of site
Sync(m, r, site) ==
  [m |-> [m EXCEPT !.h = r.h,
                   !.log = @ \o [i \in 1..Len(r.calls) |->
                                   [site |-> site, f |-> r.calls[i].f, arg |-> r.calls[i].arg]]],
   out |-> r.out, v |-> r.v]

Returned(a) == [m |-> a.m, out |-> "ret", v |-> a.v]

\* (opt) => opt.method(...) of the OptionTypeAsync method called at c.env.site
OptionTypeAsync_callback(m, c, opt) ==
  LET method == c.env.method
      arg == c.env.arg
      site == c.env.site
      f == [name |-> arg.name, promise |-> arg.promise, site |-> site]
      o == opt.n
  IN CASE method = "isSomeAndAsync" -> Returned(Option_isSomeAndAsync(m, o, f))
       [] method = "filterAsync" -> Returned(Option_filterAsync(m, o, f))
       [] method = "flattenAsync" -> Sync(m, Option_flatten(m.h, o), site)
       [] method = "expectAsync" -> Sync(m, Option_expect(m.h, o, arg), site)
       [] method = "unwrapAsync" -> Sync(m, Option_unwrap(m.h, o), site)
       [] method = "unwrapOrAsync" -> Sync(m, Option_unwrapOr(m.h, o, arg), site)
       [] method = "orAsync" ->
            IF IsOption(m.h, arg) THEN Sync(m, Option_or(m.h, o, arg), site)
            ELSE Returned(Option_orAsync(m, o, arg))
       [] method = "orElseAsync" -> Returned(Option_orElseAsync(m, o, f))
       [] method = "andAsync" ->
            IF IsOption(m.h, arg) THEN Sync(m, Option_and(m.h, o, arg), site)
            ELSE Returned(Option_andAsync(m, o, arg))
       [] method = "andThenAsync" -> Returned(Option_andThenAsync(m, o, f))
       [] method = "mapAsync" -> Returned(Option_mapAsync(m, o, f))
       [] method = "okOrAsync" -> Sync(m, Option_okOr(m.h, o, arg), site)
       [] method = "inspectAsync" -> Sync(m, Option_inspect(m.h, o, arg.name), site)
       [] method = "isSomeAsync" -> Sync(m, Ret(m.h, Bool(m.h[o].T), <<>>), site)

\* the functions of option.ts
OptionCallback(m, c, x) ==
  CASE c.code = "some" -> LET a == some(m.h, x) IN Sync(m, Plain(a), 0)
    [] c.code = "none" -> Sync(m, Ret(m.h, Ref(none), <<>>), 0)
    [] c.code = "pass" -> Sync(m, Ret(m.h, IF IsTrue(x) THEN c.env ELSE Ref(none), <<>>), 0)
    [] c.code = "method" -> OptionTypeAsync_callback(m, c, x)

\* (res) => res.method(...) of the ResultTypeAsync method called at c.env.site
ResultTypeAsync_callback(m, c, res) ==
  LET method == c.env.method
      arg == c.env.arg
      site == c.env.site
      f == [name |-> arg.name, promise |-> arg.promise, site |-> site]
      r == res.n
  IN CASE method = "isOkAndAsync" ->
            LET t == Result_isOkAnd(m.h, r, arg.name) IN
              IF m.h[r].T /\ arg.promise
              THEN LET p == PromiseResolve(Sync(m, t, site).m, t.v) IN Returned(p)
              ELSE Sync(m, t, site)
       [] method = "filterAsync" -> Returned(Result_filterAsync(m, r, f))
       [] method = "flattenAsync" -> Sync(m, Result_flatten(m.h, r), site)
       [] method = "unwrapAsync" -> Sync(m, Result_unwrap(m.h, r), site)
       [] method = "unwrapOrAsync" -> Sync(m, Result_unwrapOr(m.h, r, arg), site)
       [] method = "orAsync" ->
            IF IsResult(m.h, arg) THEN Sync(m, Result_or(m.h, r, arg), site)
            ELSE Returned(Result_orAsync(m, r, arg))
       [] method = "orElseAsync" -> Returned(Result_orElseAsync(m, r, f))
       [] method = "andAsync" ->
            IF IsResult(m.h, arg) THEN Sync(m, Result_and(m.h, r, arg), site)
            ELSE Returned(Result_andAsync(m, r, arg))
       [] method = "andThenAsync" -> Returned(Result_andThenAsync(m, r, f))
       [] method = "mapAsync" -> Returned(Result_mapAsync(m, r, f))
       [] method = "mapErrAsync" -> Returned(Result_mapErrAsync(m, r, f))
       [] method = "okAsync" -> Sync(m, Result_ok(m.h, r), site)
       [] method = "inspectAsync" -> Sync(m, Result_inspect(m.h, r, arg.name), site)
       [] method = "inspectErrAsync" ->
            Sync(m, Result_inspectErr(m.h, r, arg.name), site)
       [] method = "isOkAsync" -> Sync(m, Ret(m.h, Bool(Result_isOk(m.h, r)), <<>>), site)

\* the functions of result.ts; c.env of safe's catch function is mapErr, and
\* ignore is the () => undefined of inspectAsync
ResultCallback(m, c, x) ==
  CASE c.code = "Ok" -> LET a == Ok(m.h, x) IN Sync(m, Plain(a), 0)
    [] c.code = "Err" -> LET a == Err(m.h, x) IN Sync(m, Plain(a), 0)
    [] c.code = "valid" ->
         IF IsTrue(x) THEN LET a == Some(m.h, c.env) IN Sync(m, Plain(a), 0)
         ELSE Sync(m, Ret(m.h, Ref(none), <<>>), 0)
    [] c.code = "catch" ->
         IF c.env.k = "undefined"
         THEN LET e == toError(m.h, x)
                  a == Err(e.h, e.v)
              IN Sync(m, Plain(a), 0)
         ELSE LET r == CallFn(m.h, c.env.k, x) IN
                IF r.out = "throw" THEN Sync(m, r, 0)
                ELSE LET a == Err(r.h, r.v) IN Sync(m, Plain(a), 0)
    [] c.code = "ignore" -> Sync(m, Ret(m.h, Undefined, <<>>), 0)
    [] c.code = "method" -> ResultTypeAsync_callback(m, c, x)

(***************************************************************************)
(* OptionTypeAsync and ResultTypeAsync: each method hands one function to   *)
(* this.then; the container-returning ones wrap the derived promise, the    *)
(* async ones return a promise resolved with it, inspectAsync returns this. *)
(***************************************************************************)
\* a method that stores the derived promise in the receiver
OptionTypeAsync_methodInPlace(m, this, method, arg, site) ==
  LET cb == Lambda("option", "method", [method |-> method, arg |-> arg, site |-> site])
      t == Async_then(m, this, cb, NoHandler)
  IN [m |-> [t.m EXCEPT !.h[this].Prom = t.v], v |-> Ref(this)]

\* an inspectAsync that inspects a promise resolved with the receiver, a job
\* later than the receiver's own promise
OptionTypeAsync_inspectAsyncDetached(m, this, cb) ==
  LET p == PromiseResolve(m, Ref(this))
  IN [m |-> Then(p.m, p.v.n, cb, NoHandler).m, v |-> Ref(this)]

\* inspectAsync(f) { this.then((opt) => opt.inspect(f)); return this; }
OptionTypeAsync_inspectAsync(m, this, cb) ==
  [m |-> Async_then(m, this, cb, NoHandler).m, v |-> Ref(this)]

OptionTypeAsync_method(m, this, method, arg, site) ==
  LET cb == Lambda("option", "method", [method |-> method, arg |-> arg, site |-> site])
  IN CASE method \in {"filterAsync", "flattenAsync", "orAsync", "orElseAsync",
                      "andAsync", "andThenAsync", "mapAsync"} ->
            LET t == Async_then(m, this, cb, NoHandler)
            IN NewAsync(t.m, OptionTypeAsync(t.v))
       [] method = "okOrAsync" ->
            LET t == Async_then(m, this, cb, NoHandler)
            IN NewAsync(t.m, ResultTypeAsync(t.v))
       [] method \in {"isSomeAsync", "isSomeAndAsync", "expectAsync", "unwrapAsync",
                      "unwrapOrAsync"} ->
            LET n == NewPromise(m)
                t == Async_then(n.m, this, cb, NoHandler)
            IN [m |-> ResolvePromise(t.m, n.v.n, t.v), v |-> n.v]
       [] method = "inspectAsync" -> OptionTypeAsync_inspectAsync(m, this, cb)

ResultTypeAsync_method(m, this, method, arg, site) ==
  LET cb == Lambda("result", "method", [method |-> method, arg |-> arg, site |-> site])
  IN CASE method \in {"flattenAsync", "orAsync", "orElseAsync", "andAsync",
                      "andThenAsync", "mapAsync", "mapErrAsync"} ->
            LET t == Async_then(m, this, cb, NoHandler)
            IN NewAsync(t.m, ResultTypeAsync(t.v))
       [] method \in {"filterAsync", "okAsync"} ->
            LET t == Async_then(m, this, cb, NoHandler)
            IN NewAsync(t.m, OptionTypeAsync(t.v))
       [] method \in {"isOkAsync", "isOkAndAsync", "unwrapAsync", "unwrapOrAsync"} ->
            LET n == NewPromise(m)
                t == Async_then(n.m, this, cb, NoHandler)
            IN [m |-> ResolvePromise(t.m, n.v.n, t.v), v |-> n.v]
       [] method \in {"inspectAsync", "inspectErrAsync"} ->
            LET t == Async_then(m, this, cb, NoHandler)
                u == Then(t.m, t.v.n, NoHandler, Lambda("result", "ignore", Undefined))
            IN [m |-> u.m, v |-> Ref(this)]

(***************************************************************************)
(* Construction from a promise.                                             *)
(***************************************************************************)
\* Option.safe(promise)
Option_safePromise(m, fn) ==
  LET t == Then(m, fn.n, Lambda("option", "some", Undefined),
                Lambda("option", "none", Undefined))
  IN NewAsync(t.m, OptionTypeAsync(t.v))

\* a Result.safe(promise) that leaves the rejection alone
Result_safePromiseNoCatch(m, fn, mapErr) ==
  LET t == Then(m, fn.n, Lambda("result", "Ok", Undefined), NoHandler)
  IN NewAsync(t.m, ResultTypeAsync(t.v))

\* Result.safe(promise, mapErr?)
Result_safePromise(m, fn, mapErr) ==
  LET t == Then(m, fn.n, Lambda("result", "Ok", Undefined), NoHandler)
      c == Then(t.m, t.v.n, NoHandler, Lambda("result", "catch", mapErr))
  IN NewAsync(c.m, ResultTypeAsync(c.v))

\* an unsafe that captures like safe
Option_unsafeCapturing(m, p) == Option_safePromise(m, p)

\* Option.unsafe(p), Result.unsafe(p)
Option_unsafe(m, p) == NewAsync(m, OptionTypeAsync(p))
Result_unsafe(m, p) == NewAsync(m, ResultTypeAsync(p))

(***************************************************************************)
(* The synchronous program: any constructor and any method, on any object   *)
(* built so far, with arguments of the types the signatures ask for.        *)
(***************************************************************************)
NoCall ==
  [op |-> "idle", this |-> Undefined, arg |-> Undefined,
   out |-> "ret", v |-> Undefined, calls |-> <<>>]

\* no promise and no job: the synchronous programs make none
NoAsync ==
  /\ promises = <<>>
  /\ jobs = <<>>
  /\ log = <<>>
  /\ prog = <<>>

Init ==
  /\ heap = <<OptionType(Undefined, FALSE)>>
  /\ last = NoCall
  /\ NoAsync

\* The program makes one call at a time: a call is made when none is being
\* looked at, and its outcome is recorded until the program moves on.
Step(op, this, arg, r) ==
  /\ last = NoCall
  /\ Len(r.h) <= MaxHeap
  /\ heap' = r.h
  /\ last' = [op |-> op, this |-> this, arg |-> arg,
              out |-> r.out, v |-> r.v, calls |-> r.calls]
  /\ UNCHANGED <<promises, jobs, log, prog>>

\* A chain of two calls, x.okOr(e).ok(), made in one expression: the
\* container in the middle is one object more on the heap
Chain(op, this, arg, r) ==
  /\ last = NoCall
  /\ Len(r.h) <= MaxHeap + 1
  /\ heap' = r.h
  /\ last' = [op |-> op, this |-> this, arg |-> arg,
              out |-> r.out, v |-> r.v, calls |-> r.calls]
  /\ UNCHANGED <<promises, jobs, log, prog>>

OptionRefs(h) == {Ref(i) : i \in Options(h)}
ResultRefs(h) == {Ref(i) : i \in Results(h)}

LooseInputs(h) ==
  Nums \cup {Undefined, Null, NaN, Bool(FALSE), EmptyStr, DateVal(FALSE), DateVal(TRUE), Bool(TRUE)}
       \cup {Ref(i) : i \in DOMAIN h}
OptionSeqs(h) ==
  {<<>>} \cup {<<a>> : a \in Options(h)}
         \cup {<<a, b>> : a \in Options(h), b \in Options(h) \ {none}}

\* the program has looked at the outcome of its last call and moves on
Continue ==
  /\ last # NoCall
  /\ last' = NoCall
  /\ UNCHANGED <<heap, promises, jobs, log, prog>>

\* one call of a constructor or method of option.ts
NextOption ==
  \/ \E v \in LooseInputs(heap) :
       Step("Option.some", Undefined, v, Plain(some(heap, v)))
  \/ \E v \in LooseInputs(heap) :
       Step("Option.from", Undefined, v, Plain(Option_from(heap, v)))
  \/ \E v \in LooseInputs(heap) :
       Step("Option.nonNull", Undefined, v, Plain(Option_nonNull(heap, v)))
  \/ \E f \in {"ret1", "throws"} : Step("Option.safe", Undefined, FnVal(f), Option_safe(heap, f))
  \/ \E os \in OptionSeqs(heap) :
       Step("Option.all", Undefined, ArrayVal(os), Option_all(heap, os))
  \/ \E os \in OptionSeqs(heap) :
       Step("Option.any", Undefined, ArrayVal(os), Option_any(heap, os))
  \/ \E o \in Options(heap) :
       Step("Option.isSome", Ref(o), Undefined, Ret(heap, Bool(Option_isSome(heap, o)), <<>>))
  \/ \E o \in Options(heap) :
       Step("Option.isNone", Ref(o), Undefined, Ret(heap, Bool(Option_isNone(heap, o)), <<>>))
  \/ \E o \in Options(heap), f \in {"isPos"} :
       Step("Option.isSomeAnd", Ref(o), FnVal(f), Option_isSomeAnd(heap, o, f))
  \/ \E o \in Options(heap), f \in {"isPos"} :
       Step("Option.filter", Ref(o), FnVal(f), Option_filter(heap, o, f))
  \/ \E o \in Options(heap) :
       Step("Option.flatten", Ref(o), Undefined, Option_flatten(heap, o))
  \/ \E o \in Options(heap), m \in {Str(1)} :
       Step("Option.expect", Ref(o), m, Option_expect(heap, o, m))
  \/ \E o \in Options(heap) : Step("Option.unwrap", Ref(o), Undefined, Option_unwrap(heap, o))
  \/ \E o \in Options(heap), d \in Nums :
       Step("Option.unwrapOr", Ref(o), d, Option_unwrapOr(heap, o, d))
  \/ \E o \in Options(heap), f \in {"ret1", "throws"} :
       Step("Option.unwrapOrElse", Ref(o), FnVal(f), Option_unwrapOrElse(heap, o, f))
  \/ \E o \in Options(heap) :
       Step("Option.unwrapUnchecked", Ref(o), Undefined, Option_unwrapUnchecked(heap, o))
  \/ \E o \in Options(heap), b \in OptionRefs(heap) :
       Step("Option.or", Ref(o), b, Option_or(heap, o, b))
  \/ \E o \in Options(heap), f \in {"toSome", "toNone"} :
       Step("Option.orElse", Ref(o), FnVal(f), Option_orElse(heap, o, f))
  \/ \E o \in Options(heap), b \in OptionRefs(heap) :
       Step("Option.and", Ref(o), b, Option_and(heap, o, b))
  \/ \E o \in Options(heap), f \in {"toSome", "toNone"} :
       Step("Option.andThen", Ref(o), FnVal(f), Option_andThen(heap, o, f))
  \/ \E o \in Options(heap), f \in {"inc"} :
       Step("Option.map", Ref(o), FnVal(f), Option_map(heap, o, f))
  \/ \E o \in Options(heap), e \in Nums :
       Step("Option.okOr", Ref(o), e, Option_okOr(heap, o, e))
  \/ \E o \in Options(heap), e \in Nums :
       Chain("Option.okOr.ok", Ref(o), e,
             LET a == Option_okOr(heap, o, e) IN Result_ok(a.h, a.v.n))
  \/ \E o \in Options(heap), f \in {"ret1", "throws"} :
       Step("Option.okOrElse", Ref(o), FnVal(f), Option_okOrElse(heap, o, f))
  \/ \E o \in Options(heap), f \in {"noop", "ret1", "throws"} :
       Step("Option.inspect", Ref(o), FnVal(f), Option_inspect(heap, o, f))

\* one call of a constructor or method of result.ts
NextResult ==
  \/ \E v \in Nums \cup ResultRefs(heap) \cup {Ref(i) : i \in {j \in DOMAIN heap : IsError(heap, Ref(j))}} :
       Step("Result.ok", Undefined, v, Plain(Ok(heap, v)))
  \/ \E v \in Nums \cup {Ref(i) : i \in {j \in DOMAIN heap : IsError(heap, Ref(j))}} :
       Step("Result.err", Undefined, v, Plain(Err(heap, v)))
  \/ \E f \in {"ret1", "throws"}, m \in {"undefined", "inc"} :
       Step("Result.safe", FnVal(m), FnVal(f), Result_safe(heap, f, m))
  \/ \E r \in Results(heap) :
       Step("Result.isOk", Ref(r), Undefined, Ret(heap, Bool(Result_isOk(heap, r)), <<>>))
  \/ \E r \in Results(heap) :
       Step("Result.isErr", Ref(r), Undefined, Ret(heap, Bool(Result_isErr(heap, r)), <<>>))
  \/ \E r \in Results(heap), f \in {"isPos"} :
       Step("Result.isOkAnd", Ref(r), FnVal(f), Result_isOkAnd(heap, r, f))
  \/ \E r \in Results(heap), f \in {"isPos"} :
       Step("Result.isErrAnd", Ref(r), FnVal(f), Result_isErrAnd(heap, r, f))
  \/ \E r \in Results(heap), f \in {"isPos"} :
       Step("Result.filter", Ref(r), FnVal(f), Result_filter(heap, r, f))
  \/ \E r \in Results(heap) :
       Step("Result.flatten", Ref(r), Undefined, Result_flatten(heap, r))
  \/ \E r \in Results(heap) : Step("Result.unwrap", Ref(r), Undefined, Result_unwrap(heap, r))
  \/ \E r \in Results(heap) :
       Step("Result.unwrapErr", Ref(r), Undefined, Result_unwrapErr(heap, r))
  \/ \E r \in Results(heap), d \in Nums :
       Step("Result.unwrapOr", Ref(r), d, Result_unwrapOr(heap, r, d))
  \/ \E r \in Results(heap), f \in {"inc"} :
       Step("Result.unwrapOrElse", Ref(r), FnVal(f), Result_unwrapOrElse(heap, r, f))
  \/ \E r \in Results(heap) :
       Step("Result.unwrapUnchecked", Ref(r), Undefined, Result_unwrapUnchecked(heap, r))
  \/ \E r \in Results(heap), b \in ResultRefs(heap) :
       Step("Result.or", Ref(r), b, Result_or(heap, r, b))
  \/ \E r \in Results(heap), f \in {"toOk", "toErr"} :
       Step("Result.orElse", Ref(r), FnVal(f), Result_orElse(heap, r, f))
  \/ \E r \in Results(heap), b \in ResultRefs(heap) :
       Step("Result.and", Ref(r), b, Result_and(heap, r, b))
  \/ \E r \in Results(heap), f \in {"toOk", "toErr"} :
       Step("Result.andThen", Ref(r), FnVal(f), Result_andThen(heap, r, f))
  \/ \E r \in Results(heap), f \in {"inc"} :
       Step("Result.map", Ref(r), FnVal(f), Result_map(heap, r, f))
  \/ \E r \in Results(heap), f \in {"inc"} :
       Step("Result.mapErr", Ref(r), FnVal(f), Result_mapErr(heap, r, f))
  \/ \E r \in Results(heap) : Step("Result.ok()", Ref(r), Undefined, Result_ok(heap, r))
  \/ \E r \in Results(heap), f \in {"noop", "ret1", "throws"} :
       Step("Result.inspect", Ref(r), FnVal(f), Result_inspect(heap, r, f))
  \/ \E r \in Results(heap), f \in {"noop", "ret1", "throws"} :
       Step("Result.inspectErr", Ref(r), FnVal(f), Result_inspectErr(heap, r, f))

Next == NextOption \/ NextResult \/ Continue

Spec == Init /\ [][Next]_vars

(***************************************************************************)
(* The aggregates at work: an argument list of containers of one family is  *)
(* built, then handed to all and to any.                                    *)
(***************************************************************************)
\* the containers of an argument list: [cls, T, Val] cells
Items(cls) ==
  IF cls = "OptionType"
  THEN {OptionType(Num(0), TRUE), OptionType(Num(1), TRUE), OptionType(Undefined, FALSE)}
  ELSE {ResultType(v, ok) : v \in Nums, ok \in BOOLEAN}

RECURSIVE ItemSeqs(_, _)
ItemSeqs(cls, n) ==
  IF n = 0 THEN {<<>>}
  ELSE {<<>>} \cup {<<c>> \o s : c \in Items(cls), s \in ItemSeqs(cls, n - 1)}

\* the items as objects: a None is Option.none, anything else a new object;
\* args are the heap indices in argument order
RECURSIVE BuildArgs(_, _, _)
BuildArgs(h, items, args) ==
  IF items = <<>> THEN [h |-> h, args |-> args]
  ELSE LET c == Head(items) IN
         IF c.cls = "OptionType" /\ ~c.T
         THEN BuildArgs(h, Tail(items), Append(args, none))
         ELSE BuildArgs(Append(h, c), Tail(items), Append(args, Len(h) + 1))

InitAll ==
  \E cls \in {"OptionType", "ResultType"} :
    \E items \in ItemSeqs(cls, MaxArgs) :
      LET b == BuildArgs(<<OptionType(Undefined, FALSE)>>, items, <<>>) IN
        /\ heap = b.h
        /\ last = [op |-> "arguments", this |-> Str(IF cls = "OptionType" THEN 1 ELSE 2),
                   arg |-> ArrayVal(b.args), out |-> "ret", v |-> Undefined, calls |-> <<>>]
        /\ NoAsync

\* all(...arguments) or any(...arguments)
Aggregate(op, cls, r) ==
  /\ last.op = "arguments"
  /\ last.this = Str(cls)
  /\ heap' = r.h
  /\ last' = [last EXCEPT !.op = op, !.out = r.out, !.v = r.v, !.calls = r.calls]
  /\ UNCHANGED <<promises, jobs, log, prog>>

NextAll ==
  \/ Aggregate("Option.all", 1, Option_all(heap, last.arg.items))
  \/ Aggregate("Option.any", 1, Option_any(heap, last.arg.items))
  \/ Aggregate("Result.all", 2, Result_all(heap, last.arg.items))
  \/ Aggregate("Result.any", 2, Result_any(heap, last.arg.items))

SpecAll == InitAll /\ [][NextAll]_vars

(***************************************************************************)
(* Iteration at work: a container is built around a payload, its iterator   *)
(* is asked for and next() is called until it is done, and once more.       *)
(***************************************************************************)
RECURSIVE ElemSeqs(_)
ElemSeqs(n) ==
  IF n = 0 THEN {<<>>}
  ELSE {<<>>} \cup {<<x>> \o s : x \in Nums, s \in ElemSeqs(n - 1)}

\* what is inside: an array, a value that cannot be iterated, or None
Cores == {ArrayVal(s) : s \in ElemSeqs(MaxElems)} \cup {Num(1), Undefined, Ref(none)}

RECURSIVE WrapSeqs(_)
WrapSeqs(n) ==
  IF n = 0 THEN {<<>>}
  ELSE {<<>>} \cup {<<w>> \o s : w \in {"Some", "Ok", "Err"}, s \in WrapSeqs(n - 1)}

\* Option.some(Result.ok(...core...)), the innermost container built first
RECURSIVE Nest(_, _, _)
Nest(h, wraps, core) ==
  IF wraps = <<>> THEN [h |-> h, v |-> core]
  ELSE LET inner == Nest(h, Tail(wraps), core) IN
         CASE Head(wraps) = "Some" -> some(inner.h, inner.v)
           [] Head(wraps) = "Ok" -> Ok(inner.h, inner.v)
           [] Head(wraps) = "Err" -> Err(inner.h, inner.v)

InitIter ==
  \E core \in Cores, wraps \in WrapSeqs(MaxNest) :
    LET s == Nest(<<OptionType(Undefined, FALSE)>>, wraps, core) IN
      /\ IsRef(s.v)
      /\ heap = s.h
      /\ last = [op |-> "subject", this |-> s.v, arg |-> ArrayVal(<<>>),
                 out |-> "ret", v |-> Undefined, calls |-> <<>>]
      /\ NoAsync

\* const iter = subject[Symbol.iterator]()
GetIterator ==
  /\ last.op = "subject"
  /\ LET r == IF IsOption(heap, last.this) THEN Option_iterator(heap, last.this.n)
              ELSE Result_iterator(heap, last.this.n)
     IN /\ heap' = r.h
        /\ last' = [last EXCEPT !.op = "iterator", !.out = r.out, !.v = r.v]
  /\ UNCHANGED <<promises, jobs, log, prog>>

\* iter.next(); last.arg collects the values given so far, last.calls the
\* results in which done was true
IterNext ==
  /\ last.op = "iterator"
  /\ last.out = "ret"
  /\ Len(last.calls) < 2
  /\ LET r == IteratorNext(heap, last.v.n) IN
       /\ heap' = r.h
       /\ last' = [last EXCEPT
                     !.arg = IF r.done THEN @ ELSE ArrayVal(Append(@.items, r.value)),
                     !.calls = IF r.done THEN Append(@, r.value) ELSE @]
  /\ UNCHANGED <<promises, jobs, log, prog>>

NextIter == GetIterator \/ IterNext

SpecIter == InitIter /\ [][NextIter]_vars

(***************************************************************************)
(* Claims about the synchronous containers.                                 *)
(***************************************************************************)
VariantExclusive ==
  \A i \in DOMAIN heap :
    /\ heap[i].cls = "ResultType" => Result_isOk(heap, i) # Result_isErr(heap, i)
    /\ heap[i].cls = "OptionType" => Option_isSome(heap, i) # Option_isNone(heap, i)

VariantFrozen ==
  \A i \in DOMAIN heap : i \in DOMAIN heap' /\ heap'[i] = heap[i]

\* C1: every Result satisfies isOk() # isErr() and every Option isSome() #
\* isNone(), in every state any sequence of constructors and combinators
\* reaches, and no call changes the tag or payload of a container that
\* already exists.
C1_ExactlyOneVariant == [](VariantExclusive) /\ [][VariantFrozen]_vars

\* a failing filter has run on a Some, which is still a Some afterwards
C1_Witness ==
  /\ last.op = "Option.filter"
  /\ Len(last.calls) = 1
  /\ last.v = Ref(none)
  /\ Option_isSome(heap, last.this.n)

AbsentYielding ==
  {"Option.map", "Option.filter", "Option.flatten", "Option.and",
   "Option.andThen", "Option.from", "Option.nonNull", "Option.safe",
   "Option.all", "Option.any", "Result.ok()", "Result.filter"}

\* C2: there is one None object: whenever map, filter, flatten, and, andThen,
\* Option.from, Option.nonNull, Option.safe, Option.all, Option.any,
\* Result.ok() or Result.filter() returns an Option whose tag is None, the
\* reference returned is Option.none itself, and no other None object exists.
C2_SingleNone ==
  /\ \A i \in Options(heap) : Option_isNone(heap, i) => i = none
  /\ (last.op \in AbsentYielding /\ last.out = "ret" /\ IsOption(heap, last.v)
        /\ Option_isNone(heap, last.v.n))
     => last.v = Ref(none)

\* None.map(f) has returned Option.none
C2_Witness ==
  /\ last.op = "Option.map"
  /\ last.this = Ref(none)
  /\ last.out = "ret"
  /\ last.v = Ref(none)

\* C14: unwrap() on Ok(v) returns v and unwrapErr() on Err(e) returns e;
\* unwrap() on Err(e) and unwrapErr() on Ok(v) throw the payload itself, the
\* same object, when it is an Error, and otherwise a new Error whose message
\* is the payload as a string.
C14_UnwrapThrowsPayloadAsError ==
  last.op \in {"Result.unwrap", "Result.unwrapErr"} =>
    LET c == heap[last.this.n]
        returns == c.T = (last.op = "Result.unwrap")
    IN /\ returns => last.out = "ret" /\ last.v = c.Val
       /\ ~returns =>
            /\ last.out = "throw"
            /\ IsError(heap, last.v)
            /\ IF IsError(heap, c.Val) THEN last.v = c.Val
               ELSE /\ last.v.n = Len(heap)
                    /\ last.v.n # last.this.n
                    /\ heap[last.v.n].Val = StringOf(c.Val)

\* unwrap() on an Err holding an Error has thrown that Error
C14_Witness ==
  /\ last.op = "Result.unwrap"
  /\ last.out = "throw"
  /\ IsError(heap, heap[last.this.n].Val)
  /\ last.v = heap[last.this.n].Val

\* y is single-deep, a Some or Ok of a plain value, and is what flatten
\* returns for a two-deep x that exists
OnceFlattened(y) ==
  /\ heap[y.n].T
  /\ ~IsRef(heap[y.n].Val)
  /\ \E x \in DOMAIN heap :
       /\ heap[x].cls = heap[y.n].cls
       /\ heap[x].T
       /\ heap[x].Val = y
       /\ (IF heap[x].cls = "OptionType" THEN Option_flatten(heap, x)
           ELSE Result_flatten(heap, x)).v = y

\* flatten removes one level: on Some(y) and Ok(y) it returns y itself, on
\* None Option.none and on an Err the receiver
FlattenRemovesOneLevel ==
  last.op \in {"Option.flatten", "Result.flatten"} =>
    LET c == heap[last.this.n] IN
      /\ last.out = "ret"
      /\ c.T => last.v = c.Val
      /\ ~c.T /\ last.op = "Option.flatten" => last.v = Ref(none)
      /\ ~c.T /\ last.op = "Result.flatten" => last.v = last.this
      /\ c.T /\ IsOption(heap, c.Val) /\ heap[c.Val.n].T =>
           Option_unwrap(heap, last.v.n).v = heap[c.Val.n].Val

\* C16: for x = Some(Some(v)), x.flatten() is the inner Some(v) and
\* x.flatten().unwrap() is v; Some(None).flatten() and None.flatten() are
\* Option.none; flatten called again on the once-flattened Some(v) returns
\* the plain v, one level less, so it is not idempotent.
C16_FlattenOneLevel ==
  /\ FlattenRemovesOneLevel
  /\ (last.op \in {"Option.flatten", "Result.flatten"} /\ OnceFlattened(last.this))
       => /\ last.v = heap[last.this.n].Val
          /\ last.v # last.this

\* C16 as stated: flatten called again on the once-flattened value returns
\* that value
C16_FlattenIdempotent ==
  /\ FlattenRemovesOneLevel
  /\ (last.op \in {"Option.flatten", "Result.flatten"} /\ OnceFlattened(last.this))
       => last.v = last.this

\* flatten was called on the Some(1) inside a Some(Some(1)) and returned 1
C16_Witness ==
  /\ last.op = "Option.flatten"
  /\ OnceFlattened(last.this)
  /\ last.v = Num(1)

\* the last call invoked its callback exactly once, with v, or never
InvokedOnceWith(v) == last.calls = <<Call(last.arg.k, v)>>
NeverInvoked == last.calls = <<>>

\* the last call returned a new container of the given class and variant
\* holding v
ReturnedNew(cls, variant, v) ==
  /\ last.out = "ret"
  /\ IsRef(last.v)
  /\ last.v # last.this
  /\ heap[last.v.n] = [cls |-> cls, T |-> variant, Val |-> v]

\* C17: Some(v).map(f) and Ok(v).map(f) hold f(v), f invoked exactly once
\* with v; None.map(f) is Option.none, Err(e).map(f) is an Err holding e and
\* Ok(v).mapErr(g) an Ok holding v, f and g never invoked.
C17_MapOwnSide ==
  LET c == heap[last.this.n] IN
    /\ last.op = "Option.map" =>
          IF c.T
          THEN /\ ReturnedNew("OptionType", TRUE, CallFn(heap, last.arg.k, c.Val).v)
               /\ Option_unwrap(heap, last.v.n).v = CallFn(heap, last.arg.k, c.Val).v
               /\ InvokedOnceWith(c.Val)
          ELSE last.out = "ret" /\ last.v = Ref(none) /\ NeverInvoked
    /\ last.op = "Result.map" =>
          IF c.T
          THEN /\ ReturnedNew("ResultType", TRUE, CallFn(heap, last.arg.k, c.Val).v)
               /\ Result_unwrap(heap, last.v.n).v = CallFn(heap, last.arg.k, c.Val).v
               /\ InvokedOnceWith(c.Val)
          ELSE ReturnedNew("ResultType", FALSE, c.Val) /\ NeverInvoked
    /\ last.op = "Result.mapErr" =>
          IF c.T
          THEN ReturnedNew("ResultType", TRUE, c.Val) /\ NeverInvoked
          ELSE /\ ReturnedNew("ResultType", FALSE, CallFn(heap, last.arg.k, c.Val).v)
               /\ InvokedOnceWith(c.Val)

\* Err(1).map(inc) has returned another Err holding 1 without calling inc
C17_Witness ==
  /\ last.op = "Result.map"
  /\ ~heap[last.this.n].T
  /\ heap[last.this.n].Val = Num(1)
  /\ ReturnedNew("ResultType", FALSE, Num(1))
  /\ NeverInvoked

\* the last call ended as its callback does for v: it returned the value, or
\* the container the callback has just built, or threw what the callback
\* throws
ReturnedResultOf(v) ==
  LET r == CallFn(heap, last.arg.k, v) IN
    /\ last.out = r.out
    /\ IF IsRef(r.v) /\ r.v.n > Len(heap)
       THEN last.v = Ref(Len(heap)) /\ heap[last.v.n] = r.h[r.v.n]
       ELSE last.v = r.v

\* C18: Some(a).and(b) and Ok(a).and(b) are b itself, Some(a).andThen(f) and
\* Ok(a).andThen(f) are f(a) with f invoked once; on None and Err neither
\* looks at its argument: andThen never invokes f, Option returns
\* Option.none and Result the receiver, an Err with its payload unchanged.
C18_AndDiscardsReceiver ==
  LET c == heap[last.this.n] IN
    /\ last.op \in {"Option.and", "Result.and"} =>
          /\ last.out = "ret"
          /\ NeverInvoked
          /\ c.T => last.v = last.arg
          /\ ~c.T /\ last.op = "Option.and" => last.v = Ref(none)
          /\ ~c.T /\ last.op = "Result.and" =>
                last.v = last.this /\ heap[last.v.n] = ResultType(c.Val, FALSE)
    /\ last.op \in {"Option.andThen", "Result.andThen"} =>
          /\ c.T => ReturnedResultOf(c.Val) /\ InvokedOnceWith(c.Val)
          /\ ~c.T => last.out = "ret" /\ NeverInvoked
          /\ ~c.T /\ last.op = "Option.andThen" => last.v = Ref(none)
          /\ ~c.T /\ last.op = "Result.andThen" =>
                last.v = last.this /\ heap[last.v.n] = ResultType(c.Val, FALSE)

\* Some(a).and(b) has returned b, another Some than the receiver
C18_Witness ==
  /\ last.op = "Option.and"
  /\ heap[last.this.n].T
  /\ last.arg # last.this
  /\ heap[last.arg.n].T
  /\ last.v = last.arg

EagerFallbacks == {"Option.unwrapOr", "Result.unwrapOr", "Option.or", "Result.or"}
LazyFallbacks ==
  {"Option.unwrapOrElse", "Result.unwrapOrElse", "Option.orElse", "Result.orElse"}

\* what the receiver gives its fallback function: nothing for an Option, the
\* error payload for a Result
FallbackInput ==
  IF heap[last.this.n].cls = "OptionType" THEN Undefined ELSE heap[last.this.n].Val

\* The fallback is used iff the receiver is None or Err: unwrapOr and
\* unwrapOrElse give the payload of a Some or Ok, or and orElse the receiver
\* itself; otherwise the eager forms give their argument and the lazy forms
\* end as f does, f invoked once.  f is not invoked on a Some or Ok.
FallbackIffAbsent ==
  LET c == heap[last.this.n] IN
    /\ last.op \in {"Option.unwrapOr", "Result.unwrapOr"} =>
          last.v = (IF c.T THEN c.Val ELSE last.arg)
    /\ last.op \in {"Option.or", "Result.or"} =>
          last.v = (IF c.T THEN last.this ELSE last.arg)
    /\ last.op \in EagerFallbacks => NeverInvoked
    /\ last.op \in LazyFallbacks =>
          IF c.T
          THEN /\ NeverInvoked
               /\ last.out = "ret"
               /\ last.v = (IF last.op \in {"Option.orElse", "Result.orElse"}
                            THEN last.this ELSE c.Val)
          ELSE InvokedOnceWith(FallbackInput) /\ ReturnedResultOf(FallbackInput)

\* C19: the fallback is used iff the receiver is None or Err, and f is
\* invoked only then; none of the eight throws of its own, a lazy form
\* throws exactly when f does, on a None or Err.
C19_FallbackThrowsOnlyWithF ==
  /\ FallbackIffAbsent
  /\ last.op \in EagerFallbacks => last.out = "ret"
  /\ last.op \in LazyFallbacks =>
        (last.out = "throw" <=>
           /\ ~heap[last.this.n].T
           /\ CallFn(heap, last.arg.k, FallbackInput).out = "throw")

\* C19 as stated: none of them ever throws
C19_FallbacksNeverThrow ==
  /\ FallbackIffAbsent
  /\ last.op \in EagerFallbacks \cup LazyFallbacks => last.out = "ret"

\* None.unwrapOrElse(f) has invoked an f that throws, and thrown
C19_Witness ==
  /\ last.op = "Option.unwrapOrElse"
  /\ last.this = Ref(none)
  /\ InvokedOnceWith(Undefined)
  /\ last.out = "throw"

\* C20: Ok(v).ok() is a Some whose unwrap() is v and Err(e).ok() is
\* Option.none; Some(v).okOr(e) is an Ok holding v and None.okOr(e) an Err
\* holding e; Some(v).okOr(e).ok() is a Some holding v and None.okOr(e).ok()
\* is Option.none.
C20_ConversionKeepsSuccess ==
  LET c == heap[last.this.n] IN
    /\ last.op = "Result.ok()" =>
          IF c.T
          THEN /\ ReturnedNew("OptionType", TRUE, c.Val)
               /\ Option_unwrap(heap, last.v.n) = Ret(heap, c.Val, <<>>)
          ELSE last.out = "ret" /\ last.v = Ref(none)
    /\ last.op = "Option.okOr" =>
          IF c.T THEN ReturnedNew("ResultType", TRUE, c.Val)
          ELSE ReturnedNew("ResultType", FALSE, last.arg)
    /\ last.op = "Option.okOr.ok" =>
          IF c.T THEN ReturnedNew("OptionType", TRUE, c.Val)
          ELSE last.out = "ret" /\ last.v = Ref(none)
    /\ last.op \in {"Result.ok()", "Option.okOr", "Option.okOr.ok"} => NeverInvoked

\* Some(1).okOr(e).ok() has returned a Some holding 1, built from the Ok in
\* between
C20_Witness ==
  /\ last.op = "Option.okOr.ok"
  /\ heap[last.this.n].T
  /\ heap[last.this.n].Val = Num(1)
  /\ ReturnedNew("OptionType", TRUE, Num(1))
  /\ IsResult(heap, Ref(last.v.n - 1))

\* what iterating v should give: the elements of the array found by going
\* down through Some and Ok, nothing below a None or an Err, and no iterator
\* (ok is false) where the payload found is not an array
RECURSIVE Elements(_, _)
Elements(h, v) ==
  IF IsOption(h, v) \/ IsResult(h, v)
  THEN IF h[v.n].T THEN Elements(h, h[v.n].Val) ELSE [ok |-> TRUE, items |-> <<>>]
  ELSE IF v.k = "array" THEN [ok |-> TRUE, items |-> v.items]
  ELSE [ok |-> FALSE, items |-> <<>>]

\* C21: the iterator of a container gives the elements of the innermost
\* payload in order and is then done, gives nothing and is done at once
\* below a None or an Err, and asking for it throws where the payload is not
\* iterable.
C21_IterationDelegates ==
  last.op = "iterator" =>
    LET e == Elements(heap, last.this) IN
      /\ (last.out = "throw") <=> ~e.ok
      /\ last.out = "throw" =>
           /\ IsError(heap, last.v)
           /\ heap[last.v.n].Val \in {Str(-7), Str(-8)}
           /\ last.arg.items = <<>>
      /\ last.out = "ret" =>
           /\ Len(last.arg.items) <= Len(e.items)
           /\ last.arg.items = SubSeq(e.items, 1, Len(last.arg.items))
           /\ last.calls # <<>> => last.arg.items = e.items
           /\ \A i \in DOMAIN last.calls : last.calls[i] = Undefined

\* the iterator of Some(Ok(Some([0, 1]))) has given 0, then 1, then done
C21_Witness ==
  /\ last.op = "iterator"
  /\ IsOption(heap, last.this)
  /\ heap[last.this.n].T
  /\ IsResult(heap, heap[last.this.n].Val)
  /\ heap[heap[last.this.n].Val.n].T
  /\ IsOption(heap, heap[heap[last.this.n].Val.n].Val)
  /\ last.arg.items = <<Num(0), Num(1)>>
  /\ Len(last.calls) = 1

\* the falsey values: false, 0, "", undefined, null, NaN
Falsey == {Bool(FALSE), Num(0), EmptyStr, Undefined, Null, NaN}

\* C25: nonNull(v) is None exactly for undefined, null and NaN, from(v)
\* exactly for the falsey values, Error objects and invalid Dates, and each
\* is Some(v) otherwise; what nonNull turns away from does too; some(v) is
\* Some(v) for every v.
C25_FromAndNonNull ==
  /\ last.op = "Option.nonNull" =>
        /\ last.out = "ret"
        /\ IF last.arg \in {Undefined, Null, NaN} THEN last.v = Ref(none)
           ELSE ReturnedNew("OptionType", TRUE, last.arg)
        /\ last.v = Ref(none) => Option_from(heap, last.arg).v = Ref(none)
  /\ last.op = "Option.from" =>
        /\ last.out = "ret"
        /\ IF last.arg \in Falsey \/ IsError(heap, last.arg) \/ last.arg = DateVal(FALSE)
           THEN last.v = Ref(none)
           ELSE ReturnedNew("OptionType", TRUE, last.arg)
        /\ last.v # Ref(none) => Option_nonNull(heap, last.arg).v # Ref(none)
  /\ last.op = "Option.some" => ReturnedNew("OptionType", TRUE, last.arg)

\* nonNull(0) has returned Some(0), where from(0) returns None
C25_Witness ==
  /\ last.op = "Option.nonNull"
  /\ last.arg = Num(0)
  /\ ReturnedNew("OptionType", TRUE, Num(0))
  /\ Option_from(heap, last.arg).v = Ref(none)

InspectOps == {"Option.inspect", "Result.inspect", "Result.inspectErr"}

\* C26: inspect(f) calls f exactly once with the payload iff the receiver is
\* Some or Ok, inspectErr(f) iff it is Err, and never otherwise; the receiver
\* keeps its variant and payload, and the call returns the receiver itself
\* whatever f returns (where f throws, so does the call).
C26_InspectReturnsReceiver ==
  [][(last = NoCall /\ last'.op \in InspectOps) =>
       LET this == last'.this.n
           c == heap[this]
           invokes == c.T = (last'.op # "Result.inspectErr")
       IN /\ heap'[this] = c
          /\ last'.calls = (IF invokes THEN <<Call(last'.arg.k, c.Val)>> ELSE <<>>)
          /\ (last'.out = "throw") <=>
                (invokes /\ CallFn(heap, last'.arg.k, c.Val).out = "throw")
          /\ last'.out = "ret" => last'.v = last'.this]_vars

\* Err(e).inspectErr(f) has called an f that returns 1 and returned the Err
C26_Witness ==
  /\ last.op = "Result.inspectErr"
  /\ ~heap[last.this.n].T
  /\ last.arg = FnVal("ret1")
  /\ last.calls = <<Call("ret1", heap[last.this.n].Val)>>
  /\ last.out = "ret"
  /\ last.v = last.this

\* the arguments of the call, and those among them that are None or Err
ArgsOf == last.arg.items
Failing == {i \in 1..Len(ArgsOf) : ~heap[ArgsOf[i]].T}
Succeeding == {i \in 1..Len(ArgsOf) : heap[ArgsOf[i]].T}
First(S) == CHOOSE i \in S : \A j \in S : i <= j

\* C12: all(c1..cn) returns a new Some or Ok holding the array of the
\* payloads in argument order when every argument is Some or Ok (the empty
\* array for no argument); otherwise Result.all returns the first Err among
\* the arguments, the object itself, and Option.all returns Option.none.
C12_AllCollectsOrFirstFailure ==
  last.op \in {"Option.all", "Result.all"} =>
    /\ last.out = "ret"
    /\ IsRef(last.v)
    /\ Failing = {} =>
         /\ heap[last.v.n].cls = (IF last.op = "Option.all" THEN "OptionType" ELSE "ResultType")
         /\ heap[last.v.n].T
         /\ heap[last.v.n].Val = ArrayVal([i \in 1..Len(ArgsOf) |-> heap[ArgsOf[i]].Val])
         /\ \A i \in 1..Len(ArgsOf) : last.v.n # ArgsOf[i]
    /\ Failing # {} /\ last.op = "Result.all" => last.v = Ref(ArgsOf[First(Failing)])
    /\ Failing # {} /\ last.op = "Option.all" => last.v = Ref(none)

\* Result.all(Ok(a), Err(b), Err(c)) has returned the Err(b)
C12_Witness ==
  /\ last.op = "Result.all"
  /\ Len(ArgsOf) = 3
  /\ Failing = {2, 3}
  /\ last.v = Ref(ArgsOf[2])
  /\ heap[ArgsOf[2]].Val # heap[ArgsOf[3]].Val

\* C13: any(c1..cn) returns the first Some or Ok among the arguments, the
\* object itself; when there is none Result.any returns a new Err holding the
\* array of the error payloads in argument order (the empty array for no
\* argument) and Option.any returns Option.none.
C13_AnyFirstSuccessOrAllErrors ==
  last.op \in {"Option.any", "Result.any"} =>
    /\ last.out = "ret"
    /\ Succeeding # {} => last.v = Ref(ArgsOf[First(Succeeding)])
    /\ Succeeding = {} /\ last.op = "Option.any" => last.v = Ref(none)
    /\ Succeeding = {} /\ last.op = "Result.any" =>
         /\ IsResult(heap, last.v)
         /\ ~heap[last.v.n].T
         /\ heap[last.v.n].Val = ArrayVal([i \in 1..Len(ArgsOf) |-> heap[ArgsOf[i]].Val])

\* Result.any(Err(0), Err(1)) has returned Err([0, 1])
C13_Witness ==
  /\ last.op = "Result.any"
  /\ Len(ArgsOf) = 2
  /\ Succeeding = {}
  /\ heap[last.v.n].Val = ArrayVal(<<Num(0), Num(1)>>)

(***************************************************************************)
(* The match engine.                                                        *)
(*                                                                          *)
(* A branch specification is data: a mapped record keyed by Some, None, Ok, *)
(* Err and the fallback key _ (here def), or a chained list of              *)
(* [pattern, result] pairs with an optional trailing bare default.  A       *)
(* result-producing function is known by its id: called, it returns the     *)
(* label of that id, or a promise of it when it is an async function.       *)
(***************************************************************************)
Absent == [kind |-> "absent"]
FnNode(id) == [kind |-> "fn", id |-> id]
ValNode(id) == [kind |-> "val", id |-> id]
Mapped(S, N, O, E, d) ==
  [kind |-> "mapped", Some |-> S, None |-> N, Ok |-> O, Err |-> E, def |-> d]
Chained(pairs, bare) == [kind |-> "chained", pairs |-> pairs, bare |-> bare]
Pair(pat, res) == [pat |-> pat, res |-> res]

\* patterns: the wildcard _, a literal, a predicate, a container, a wrapped
\* function Fn(g), an array and a record of patterns (keys in the order they
\* are declared)
Wildcard == [p |-> "_"]
FnP(id) == [p |-> "fn", id |-> id]
ArrP(pats) == [p |-> "array", keys |-> [i \in 1..Len(pats) |-> i], at |-> pats]
RecP(keys, at) == [p |-> "record", keys |-> keys, at |-> at]
MonadP(cls, variant, inner) == [p |-> "monad", cls |-> cls, T |-> variant, inner |-> inner]

\* a function as a value, known by its identity, and a plain record
Func(id) == [k |-> "function", n |-> id]
RecordVal(fields) == [k |-> "record", n |-> 0, fields |-> fields]

\* the own properties of an array or record: index or key to value
Props(val) == IF val.k = "array" THEN val.items ELSE val.fields
Lit(v) == [p |-> "lit", v |-> v]
Pred(f) == [p |-> "pred", f |-> f]
SomeP(inner) == [p |-> "monad", cls |-> "OptionType", T |-> TRUE, inner |-> inner]
NoneP == [p |-> "monad", cls |-> "OptionType", T |-> FALSE, inner |-> Wildcard]

Label(id) == [k |-> "label", n |-> id]
PromiseOfLabel(id) == [k |-> "promiseOfLabel", n |-> id]
Exhausted == [k |-> "Exhausted", n |-> 0]

\* the outcome of a nesting level at which nothing applied
NoMatch(h, calls) == [h |-> h, out |-> "nomatch", v |-> Undefined, calls |-> calls]

\* the predicates of the examples: (x) => x < 10, (x) => x > 10, and a
\* function that returns a non-empty string whatever it is given
TestPred(f, v) ==
  CASE f = "lt10" -> v.k = "num" /\ v.n < 10
    [] f = "gt10" -> v.k = "num" /\ v.n > 10
    [] f = "nested" -> TRUE

RECURSIVE matchesIn(_, _, _, _)
RECURSIVE matchesKeys(_, _, _, _, _, _)

\* a matcher that calls the functions it finds inside a container pattern
matchesEvaluating(h, pat, val, evaluate) ==
  CASE pat.p = "_" -> [ok |-> TRUE, calls |-> <<>>]
    [] pat.p = "lit" -> [ok |-> val = pat.v, calls |-> <<>>]
    [] pat.p = "pred" ->
         [ok |-> TestPred(pat.f, val), calls |-> <<Call(pat.f, val)>>]
    [] pat.p = "fn" -> [ok |-> val = Func(pat.id), calls |-> <<>>]
    [] pat.p = "monad" ->
         IF IsRef(val) /\ h[val.n].cls = pat.cls /\ h[val.n].T = pat.T
         THEN matchesIn(h, pat.inner, h[val.n].Val, TRUE)
         ELSE [ok |-> FALSE, calls |-> <<>>]
    [] pat.p \in {"array", "record"} ->
         IF val.k = pat.p THEN matchesKeys(h, pat, val, 1, evaluate, <<>>)
         ELSE [ok |-> FALSE, calls |-> <<>>]

\* a matcher for which a container of either family is as good as the other
matchesAnyFamily(h, pat, val, evaluate) ==
  CASE pat.p = "_" -> [ok |-> TRUE, calls |-> <<>>]
    [] pat.p = "lit" -> [ok |-> val = pat.v, calls |-> <<>>]
    [] pat.p = "pred" ->
         IF evaluate
         THEN [ok |-> TestPred(pat.f, val), calls |-> <<Call(pat.f, val)>>]
         ELSE [ok |-> FALSE, calls |-> <<>>]
    [] pat.p = "fn" -> [ok |-> val = Func(pat.id), calls |-> <<>>]
    [] pat.p = "monad" ->
         IF IsRef(val) /\ h[val.n].cls \in {"OptionType", "ResultType"}
                      /\ h[val.n].T = pat.T
         THEN matchesIn(h, pat.inner, h[val.n].Val, FALSE)
         ELSE [ok |-> FALSE, calls |-> <<>>]
    [] pat.p \in {"array", "record"} ->
         IF val.k = pat.p THEN matchesKeys(h, pat, val, 1, evaluate, <<>>)
         ELSE [ok |-> FALSE, calls |-> <<>>]

\* does pattern pat match val?  [ok, calls]: the predicates it invoked.
\* evaluate is false inside a container pattern, where a plain function is
\* not called and does not match.
matchesIn(h, pat, val, evaluate) ==
  CASE pat.p = "_" -> [ok |-> TRUE, calls |-> <<>>]
    [] pat.p = "lit" -> [ok |-> val = pat.v, calls |-> <<>>]
    [] pat.p = "pred" ->
         IF evaluate
         THEN [ok |-> TestPred(pat.f, val), calls |-> <<Call(pat.f, val)>>]
         ELSE [ok |-> FALSE, calls |-> <<>>]
    [] pat.p = "fn" -> [ok |-> val = Func(pat.id), calls |-> <<>>]
    [] pat.p = "monad" ->
         IF IsRef(val) /\ h[val.n].cls = pat.cls /\ h[val.n].T = pat.T
         THEN matchesIn(h, pat.inner, h[val.n].Val, FALSE)
         ELSE [ok |-> FALSE, calls |-> <<>>]
    [] pat.p \in {"array", "record"} ->
         IF val.k = pat.p THEN matchesKeys(h, pat, val, 1, evaluate, <<>>)
         ELSE [ok |-> FALSE, calls |-> <<>>]

\* an array or record walk that takes a wildcard for matched where the
\* subject has no such index or key
matchesKeysLoose(h, pat, val, i, evaluate, calls) ==
  IF i > Len(pat.keys) THEN [ok |-> TRUE, calls |-> calls]
  ELSE LET key == pat.keys[i] IN
         IF key \notin DOMAIN Props(val)
         THEN IF pat.at[key] = Wildcard
              THEN matchesKeys(h, pat, val, i + 1, evaluate, calls)
              ELSE [ok |-> FALSE, calls |-> calls]
         ELSE LET r == matchesIn(h, pat.at[key], Props(val)[key], evaluate) IN
                IF r.ok THEN matchesKeys(h, pat, val, i + 1, evaluate, calls \o r.calls)
                ELSE [ok |-> FALSE, calls |-> calls \o r.calls]

\* the declared indices or keys of an array or record pattern, from the i-th
\* on: each must be one the subject has, with a value its pattern matches
matchesKeys(h, pat, val, i, evaluate, calls) ==
  IF i > Len(pat.keys) THEN [ok |-> TRUE, calls |-> calls]
  ELSE LET key == pat.keys[i] IN
         IF key \notin DOMAIN Props(val) THEN [ok |-> FALSE, calls |-> calls]
         ELSE LET r == matchesIn(h, pat.at[key], Props(val)[key], evaluate) IN
                IF r.ok THEN matchesKeys(h, pat, val, i + 1, evaluate, calls \o r.calls)
                ELSE [ok |-> FALSE, calls |-> calls \o r.calls]

\* a pattern of a chained pair, tested against the subject
matches(h, pat, val) == matchesIn(h, pat, val, TRUE)

\* a result: a literal value, or a function called with the matched value
CallBranch(h, node, arg, async, calls) ==
  IF node.kind = "val" THEN Ret(h, Label(node.id), calls)
  ELSE Ret(h, IF async THEN PromiseOfLabel(node.id) ELSE Label(node.id),
           Append(calls, Call("branch", arg)))

\* a chained walk in which the last matching pair wins
matchChainedLast(h, val, spec, i, async, calls) ==
  LET M == {j \in i..Len(spec.pairs) : matches(h, spec.pairs[j].pat, val).ok} IN
    IF M = {}
    THEN IF spec.bare.kind = "fn"
         THEN CallBranch(h, spec.bare, Undefined, async, calls)
         ELSE NoMatch(h, calls)
    ELSE LET j == CHOOSE j \in M : \A k \in M : k <= j
         IN CallBranch(h, spec.pairs[j].res, val, async, calls)

\* the chained walk from pair i on
RECURSIVE matchChainedFrom(_, _, _, _, _, _)
matchChainedFrom(h, val, spec, i, async, calls) ==
  IF i > Len(spec.pairs)
  THEN IF spec.bare.kind = "fn"
       THEN CallBranch(h, spec.bare, Undefined, async, calls)
       ELSE NoMatch(h, calls)
  ELSE LET m == matches(h, spec.pairs[i].pat, val) IN
         IF m.ok THEN CallBranch(h, spec.pairs[i].res, val, async, calls \o m.calls)
         ELSE matchChainedFrom(h, val, spec, i + 1, async, calls \o m.calls)

matchChained(h, val, spec, async) == matchChainedFrom(h, val, spec, 1, async, <<>>)

\* the tag a mapped specification is looked up by
TagOf(h, val) ==
  IF IsOption(h, val) THEN IF h[val.n].T THEN "Some" ELSE "None"
  ELSE IF IsResult(h, val) THEN IF h[val.n].T THEN "Ok" ELSE "Err"
  ELSE "untagged"

BranchFor(spec, tag) ==
  CASE tag = "Some" -> spec.Some
    [] tag = "None" -> spec.None
    [] tag = "Ok" -> spec.Ok
    [] tag = "Err" -> spec.Err
    [] OTHER -> Absent

\* One nesting level: the branch of the subject's tag, or the nested
\* specification on the payload; when that yields nothing, this level's own
\* fallback if it declares one, else nothing is reported to the level above.
RECURSIVE matchLevel(_, _, _, _)
\* a level that uses its fallback for its own missing key only
matchLevelOwnKeyOnly(h, val, spec, async) ==
  IF spec.kind = "chained" THEN matchChained(h, val, spec, async)
  ELSE LET br == BranchFor(spec, TagOf(h, val)) IN
         IF br.kind = "absent"
         THEN IF spec.def.kind = "fn"
              THEN CallBranch(h, spec.def, Undefined, async, <<>>)
              ELSE NoMatch(h, <<>>)
         ELSE IF br.kind = "fn"
              THEN CallBranch(h, br, h[val.n].Val, async, <<>>)
              ELSE matchLevel(h, h[val.n].Val, br, async)

matchLevel(h, val, spec, async) ==
  IF spec.kind = "chained" THEN matchChained(h, val, spec, async)
  ELSE LET br == BranchFor(spec, TagOf(h, val))
           inner == IF br.kind = "absent" THEN NoMatch(h, <<>>)
                    ELSE IF br.kind = "fn"
                         THEN CallBranch(h, br, h[val.n].Val, async, <<>>)
                         ELSE matchLevel(h, h[val.n].Val, br, async)
       IN IF inner.out = "nomatch" /\ spec.def.kind = "fn"
          THEN CallBranch(h, spec.def, Undefined, async, inner.calls)
          ELSE inner

\* a matcher that hands exhaustion to an async caller as a rejected promise
matchRejecting(h, val, spec, async) ==
  LET r == matchLevel(h, val, spec, async) IN
    IF r.out = "nomatch"
    THEN IF async THEN Ret(h, [k |-> "rejectedPromise", n |-> 0], r.calls)
         ELSE Throw(h, Exhausted, r.calls)
    ELSE r

\* match(val, pattern): only the outermost call lets Exhausted escape
match(h, val, spec, async) ==
  LET r == matchLevel(h, val, spec, async) IN
    IF r.out = "nomatch" THEN Throw(h, Exhausted, r.calls) ELSE r

(***************************************************************************)
(* The matcher at work: a subject is built, then matched against branch     *)
(* specifications.                                                          *)
(***************************************************************************)
MatchNums == {Num(5), Num(7), Num(12)}
Wrap(h, w, v) ==
  CASE w = "Some" -> some(h, v)
    [] w = "Ok" -> Ok(h, v)
    [] w = "Err" -> Err(h, v)

\* the subject with wrappers shape (outermost first) around leaf
RECURSIVE BuildSubject(_, _, _)
BuildSubject(h, shape, leaf) ==
  IF shape = <<>> THEN [h |-> h, v |-> leaf]
  ELSE LET inner == BuildSubject(h, Tail(shape), leaf)
           r == Wrap(inner.h, Head(shape), inner.v)
       IN [h |-> r.h, v |-> r.v]

\* Some and Ok nest; an Err wraps the leaf
RECURSIVE Shapes(_)
Shapes(d) ==
  IF d = 0 THEN {<<>>}
  ELSE {<<>>, <<"Err">>} \cup {<<w>> \o sh : w \in {"Some", "Ok"}, sh \in Shapes(d - 1)}

Subjects ==
  {BuildSubject(<<OptionType(Undefined, FALSE)>>, sh, leaf) :
     sh \in Shapes(MaxDepth), leaf \in {Num(5), Ref(none)}}
  \cup {[h |-> <<OptionType(Undefined, FALSE)>>, v |-> n] : n \in MatchNums}

Subject(v) ==
  [op |-> "subject", this |-> v, arg |-> Undefined,
   out |-> "ret", v |-> Undefined, calls |-> <<>>]

InitMatch ==
  \E s \in Subjects :
    /\ heap = s.h
    /\ last = Subject(s.v)
    /\ NoAsync

\* chained specifications: up to MaxPairs pairs, the result of pair i has id i,
\* the bare default id 0
Patterns ==
  {Lit(Num(5)), Pred("lt10"), Wildcard, SomeP(Pred("lt10")), NoneP}

RECURSIVE PatternSeqs(_)
PatternSeqs(n) ==
  IF n = 0 THEN {<<>>}
  ELSE {<<>>} \cup {<<p>> \o ps : p \in Patterns, ps \in PatternSeqs(n - 1)}

PairsOf(ps, fns) ==
  [i \in 1..Len(ps) |-> Pair(ps[i], IF fns THEN FnNode(i) ELSE ValNode(i))]

ChainedSpecs ==
  {Chained(PairsOf(ps, fns), bare) :
     ps \in PatternSeqs(MaxPairs), fns \in BOOLEAN, bare \in {Absent, FnNode(0)}}

\* [[5, "five"], [(x) => x < 10, "lt10"], default]
ChainedExample ==
  Chained(<<Pair(Lit(Num(5)), ValNode(1)), Pair(Pred("lt10"), ValNode(2))>>, FnNode(0))

\* mapped specifications: at nesting level lv one key with a function, a
\* chained list or a deeper specification, and optionally the fallback _; the
\* function of a key at level lv has id 10*lv + 1..4, the fallback id 10*lv
KeyCode(key) ==
  CASE key = "Some" -> 1 [] key = "None" -> 2 [] key = "Ok" -> 3 [] key = "Err" -> 4

Single(key, node, d) ==
  Mapped(IF key = "Some" THEN node ELSE Absent,
         IF key = "None" THEN node ELSE Absent,
         IF key = "Ok" THEN node ELSE Absent,
         IF key = "Err" THEN node ELSE Absent, d)

PartialChained(lv) ==
  Chained(<<Pair(Lit(Num(5)), ValNode(10 * lv + 5))>>, Absent)

RECURSIVE MappedAt(_)
MappedAt(lv) ==
  LET defs == {Absent, FnNode(10 * lv)}
      fns == {Single(key, FnNode(10 * lv + KeyCode(key)), d) :
                key \in {"Some", "None", "Ok", "Err"}, d \in defs}
      lists == {Single("Some", PartialChained(lv), d) : d \in defs}
      deeper == IF lv < MaxDepth
                THEN {Single(key, s, d) :
                        key \in {"Some", "Ok"}, s \in MappedAt(lv + 1), d \in defs}
                ELSE {}
  IN fns \cup lists \cup deeper

\* { Ok: { Some: { Ok: f, _: inner } }, _: outer }
ClosestExample ==
  Single("Ok",
         Single("Some", Single("Ok", FnNode(33), FnNode(30)), Absent),
         FnNode(10))

\* { Ok: { Some: { Ok: f, Err: g }, None: h }, Err: k }
NestingExample ==
  Mapped(Absent, Absent,
         Mapped(Mapped(Absent, Absent, FnNode(33), FnNode(34), Absent),
                FnNode(22), Absent, Absent, Absent),
         FnNode(14), Absent)

MappedSpecs == MappedAt(1) \cup {ClosestExample, NestingExample}

StepMatch(op, spec, async, r) ==
  /\ last.op = "subject"
  /\ heap' = r.h
  /\ last' = [op |-> op, this |-> last.this, arg |-> [spec |-> spec, async |-> async],
              out |-> r.out, v |-> r.v, calls |-> r.calls]
  /\ UNCHANGED <<promises, jobs, log, prog>>

MatchMapped ==
  \E spec \in MappedSpecs, async \in BOOLEAN :
    StepMatch("match", spec, async, match(heap, last.this, spec, async))

MatchChained ==
  \E spec \in ChainedSpecs, async \in BOOLEAN :
    StepMatch("match", spec, async, match(heap, last.this, spec, async))

\* a compiled matcher that lost the fallback of its specification
compiledNoDefault(h, c, val) ==
  match(h, val, IF c.spec.kind = "mapped" THEN [c.spec EXCEPT !.def = Absent]
                ELSE [c.spec EXCEPT !.bare = Absent], c.async)

\* match.compile(pattern) returns (val) => match(val, pattern): c is the
\* pattern the returned function closed over
compiled(h, c, val) == match(h, val, c.spec, c.async)

\* the specifications compiled: the examples, one-key mapped specifications
\* and chained lists of at most one pair
CompiledSpecs ==
  {ClosestExample, NestingExample}
    \cup {Single(key, FnNode(10 + KeyCode(key)), d) :
            key \in {"Some", "None", "Ok", "Err"}, d \in {Absent, FnNode(10)}}
    \cup {Single("Some", PartialChained(1), d) : d \in {Absent, FnNode(10)}}

CompiledLists ==
  {ChainedExample} \cup {s \in ChainedSpecs : Len(s.pairs) <= 1}

\* what a compiled matcher is called with: the subject, what it holds, None
\* and two numbers
CompiledArgs(h, subject) ==
  {subject, Ref(none), Num(5), Num(12)}
    \cup (IF IsRef(subject) THEN {h[subject.n].Val} ELSE {})

\* const f = match.compile(spec)
Compile(spec, async) ==
  /\ last.op = "subject"
  /\ last' = [op |-> "compile", this |-> Undefined,
              arg |-> [spec |-> spec, async |-> async, subject |-> last.this, n |-> 0,
                       prev |-> [this |-> Undefined, out |-> "ret", v |-> Undefined]],
              out |-> "ret", v |-> Undefined, calls |-> <<>>]
  /\ UNCHANGED <<heap, promises, jobs, log, prog>>

\* f(val), at most twice for one compiled matcher; the caller keeps the
\* outcome of the call before
CallCompiled ==
  /\ last.op \in {"compile", "compiled"}
  /\ last.arg.n < 2
  /\ \E val \in CompiledArgs(heap, last.arg.subject) :
       LET r == compiled(heap, last.arg, val) IN
         /\ heap' = r.h
         /\ last' = [op |-> "compiled", this |-> val,
                     arg |-> [last.arg EXCEPT
                                !.n = @ + 1,
                                !.prev = [this |-> last.this, out |-> last.out, v |-> last.v]],
                     out |-> r.out, v |-> r.v, calls |-> r.calls]
  /\ UNCHANGED <<promises, jobs, log, prog>>

ContinueMatch ==
  /\ last.op \in {"match", "compiled"}
  /\ last' = Subject(IF last.op = "match" THEN last.this ELSE last.arg.subject)
  /\ UNCHANGED <<heap, promises, jobs, log, prog>>

NextMatch ==
  \/ MatchMapped
  \/ MatchChained
  \/ \E spec \in CompiledSpecs, async \in BOOLEAN : Compile(spec, async)
  \/ \E spec \in CompiledLists, async \in BOOLEAN : Compile(spec, async)
  \/ CallCompiled
  \/ ContinueMatch

SpecMatch == InitMatch /\ [][NextMatch]_vars

(***************************************************************************)
(* Patterns at work: a subject of the test suites is built and matched      *)
(* against [[pattern, "hit"], () => "default"], one pattern at a time.      *)
(***************************************************************************)
OkP(inner) == MonadP("ResultType", TRUE, inner)
ErrP(inner) == MonadP("ResultType", FALSE, inner)

\* { a: [1] }, { a: 10, o: 1 } and the other subjects of the suites: plain
\* values, and shapes (outermost first) around a leaf
PlainSubjects ==
  {Func(1), Func(2), Num(1),
   ArrayVal(<<Num(3), Num(6), Num(9), Num(12)>>), ArrayVal(<<Num(3), Num(6), Num(9)>>),
   ArrayVal(<<Num(1), Num(2), Num(3)>>), ArrayVal(<<Num(2), Num(12), Num(6)>>),
   RecordVal([a |-> Num(10), o |-> Num(1)]), RecordVal([a |-> Num(10)]),
   RecordVal([a |-> Num(5)]),
   RecordVal([a |-> Num(50), b |-> RecordVal([c |-> Num(5)])]),
   RecordVal([a |-> Num(15), b |-> RecordVal([c |-> Num(20)])])}

WrappedSubjects ==
  {<<sh, leaf>> : sh \in {<<"Some">>},
                  leaf \in {Func(1), Func(2), Func(3), Num(1), Num(2), Ref(none),
                            RecordVal([a |-> ArrayVal(<<Num(1)>>)]),
                            ArrayVal(<<Num(1), Num(2), Num(3)>>),
                            ArrayVal(<<Num(2), Num(4), Num(6)>>)}}
  \cup {<<sh, Num(1)>> : sh \in {<<"Ok">>, <<"Err">>, <<"Ok", "Some", "Ok">>, <<"Some", "Some">>}}
  \cup {<<sh, Str(1)>> : sh \in {<<"Ok", "Some", "Err">>, <<"Some", "Some", "Err">>, <<"Ok", "Ok", "Err">>}}
  \cup {<<sh, Str(2)>> : sh \in {<<"Ok", "Some", "Err">>}}

InitPattern ==
  \/ \E v \in PlainSubjects \cup {Ref(none)} :
       /\ heap = <<OptionType(Undefined, FALSE)>>
       /\ last = Subject(v)
       /\ NoAsync
  \/ \E w \in WrappedSubjects :
       LET s == BuildSubject(<<OptionType(Undefined, FALSE)>>, w[1], w[2]) IN
         /\ heap = s.h
         /\ last = Subject(s.v)
         /\ NoAsync

\* Fn(first), Some(Fn(first)), Some({ a: [nested] }), [_, 6, 9, _],
\* { a: 10, o: _ }, Some(1), Ok(Some(Err("err"))) and their neighbours
TestPatterns ==
  {FnP(1), FnP(2), SomeP(FnP(1)), SomeP(FnP(2)), Pred("nested"),
   SomeP(RecP(<<"a">>, [a |-> ArrP(<<Pred("nested")>>)])), SomeP(Pred("nested")),
   ArrP(<<Wildcard, Lit(Num(6)), Lit(Num(9)), Wildcard>>), ArrP(<<Lit(Num(1))>>),
   ArrP(<<Lit(Num(2)), Pred("gt10")>>),
   RecP(<<"a", "o">>, [a |-> Lit(Num(10)), o |-> Wildcard]),
   RecP(<<"a">>, [a |-> Lit(Num(5))]),
   RecP(<<"b">>, [b |-> RecP(<<"c">>, [c |-> Lit(Num(5))])]),
   RecP(<<"a", "b">>, [a |-> Lit(Num(15)), b |-> RecP(<<"c">>, [c |-> Pred("gt10")])]),
   SomeP(Lit(Num(1))), SomeP(Wildcard), OkP(Lit(Num(1))), ErrP(Lit(Num(1))), NoneP,
   OkP(Wildcard), ErrP(Wildcard),
   OkP(SomeP(ErrP(Lit(Str(1))))), OkP(SomeP(OkP(Lit(Num(1))))),
   SomeP(ArrP(<<Lit(Num(1)), Lit(Num(2))>>)),
   SomeP(ArrP(<<Lit(Num(2)), Wildcard, Lit(Num(6))>>))}

\* match(subject, [[pattern, "hit"], () => "default"])
MatchPattern ==
  \E pat \in TestPatterns :
    LET spec == Chained(<<Pair(pat, ValNode(1))>>, FnNode(0)) IN
      StepMatch("match", spec, FALSE, match(heap, last.this, spec, FALSE))

NextPattern == MatchPattern \/ ContinueMatch

SpecPattern == InitPattern /\ [][NextPattern]_vars

(***************************************************************************)
(* The asynchronous program.  It holds one source promise of a declared     *)
(* payload type, builds an async container from it and calls methods of the *)
(* async containers it has; the source settles at any moment, and queued    *)
(* jobs run one by one in between.  calls lists what the program called and *)
(* what each call returned.                                                 *)
(***************************************************************************)
Machine == [h |-> heap, ps |-> promises, jobs |-> jobs, log |-> log]

Commit(m) ==
  /\ heap' = m.h
  /\ promises' = m.ps
  /\ jobs' = m.jobs
  /\ log' = m.log

Called(op, this, arg, out, v) ==
  [op |-> op, this |-> this, arg |-> arg, out |-> out, v |-> v]

SourceTypes == {"T", "Option<T>", "Option<Option<T>>", "Result<T>", "Result<Result<T>>"}
TypeVal(ty) == [k |-> "type", n |-> 0, ty |-> ty]
SourceType == prog[1].arg.ty

InitAsync ==
  \E ty \in SourceTypes :
    /\ heap = <<OptionType(Undefined, FALSE)>>
    /\ last = NoCall
    /\ promises = <<Pending>>
    /\ jobs = <<>>
    /\ log = <<>>
    /\ prog = <<Called("new Promise", Undefined, TypeVal(ty), "ret", Promise(1))>>

\* what the source may fulfil with, built on heap h: [h, v]
SourceValues(h, ty) ==
  CASE ty = "T" -> {[h |-> h, v |-> Num(1)]}
    [] ty = "Option<T>" ->
         {BuildSubject(h, <<"Some">>, Num(0)), BuildSubject(h, <<"Some">>, Num(1)),
          BuildSubject(h, <<>>, Ref(none))}
    [] ty = "Option<Option<T>>" ->
         {BuildSubject(h, <<"Some", "Some">>, Num(1)),
          BuildSubject(h, <<"Some">>, Ref(none)), BuildSubject(h, <<>>, Ref(none))}
    [] ty = "Result<T>" ->
         {BuildSubject(h, <<"Ok">>, Num(0)), BuildSubject(h, <<"Ok">>, Num(1)),
          BuildSubject(h, <<"Err">>, Num(0))}
    [] ty = "Result<Result<T>>" ->
         {BuildSubject(h, <<"Ok", "Ok">>, Num(1)), BuildSubject(h, <<"Ok", "Err">>, Num(1)),
          BuildSubject(h, <<"Err">>, Num(0))}

\* what it may reject with: a plain value, or an Error
Rejections(h, ty) ==
  {[h |-> h, v |-> Num(0)]} \cup (IF ty = "T" THEN {Alloc(h, ErrorObj(Str(2)))} ELSE {})

\* the async containers the program holds
Receivers ==
  {prog[i].v.n : i \in {j \in 2..Len(prog) :
      IsRef(prog[j].v) /\ heap[prog[j].v.n].cls \in {"OptionTypeAsync", "ResultTypeAsync"}}}

\* the methods the type of container w admits
Methods(w) ==
  IF SourceType \in {"Option<Option<T>>", "Result<Result<T>>"} /\ prog[2].v = Ref(w)
  THEN {"flattenAsync"}
  ELSE IF heap[w].cls = "OptionTypeAsync"
       THEN {"mapAsync", "filterAsync", "andAsync", "andThenAsync", "orAsync",
             "orElseAsync", "okOrAsync", "unwrapOrAsync", "isSomeAsync",
             "isSomeAndAsync", "expectAsync", "unwrapAsync", "inspectAsync"}
       ELSE {"mapAsync", "filterAsync", "andAsync", "andThenAsync", "orAsync",
             "orElseAsync", "mapErrAsync", "okAsync", "unwrapOrAsync", "isOkAsync",
             "isOkAndAsync", "unwrapAsync", "inspectAsync", "inspectErrAsync"}

\* what the promise of an argument container rejects with
OtherRejection == Num(2)

\* the arguments of a method of class cls, built on machine m: [m, v]; the
\* container handed to andAsync and orAsync is a plain one, or an async one
\* whose promise is resolved, never settles, or is rejected
Args(m, cls, method) ==
  LET fns(names) == {[m |-> m, v |-> FnArg(n, p)] : n \in names, p \in BOOLEAN}
      other == IF cls = "OptionTypeAsync" THEN some(m.h, Num(1)) ELSE Ok(m.h, Num(1))
      sync == [m |-> [m EXCEPT !.h = other.h], v |-> other.v]
      p == PromiseResolve(sync.m, sync.v)
      async == NewAsync(p.m, [cls |-> cls, Prom |-> p.v])
      n == NewPromise(m)
      never == NewAsync(n.m, [cls |-> cls, Prom |-> n.v])
      failing == NewAsync(SettlePromise(n.m, n.v.n, "rejected", OtherRejection),
                          [cls |-> cls, Prom |-> n.v])
  IN CASE method \in {"mapAsync", "mapErrAsync"} -> fns({"inc"})
       [] method \in {"filterAsync", "isSomeAndAsync", "isOkAndAsync"} -> fns({"isPos"})
       [] method \in {"andThenAsync", "orElseAsync"} ->
            fns(IF cls = "OptionTypeAsync" THEN {"toSome", "toNone"} ELSE {"toOk", "toErr"})
       [] method \in {"andAsync", "orAsync"} -> {sync, async, never, failing}
       [] method \in {"unwrapOrAsync", "okOrAsync"} -> {[m |-> m, v |-> Num(1)]}
       [] method = "expectAsync" -> {[m |-> m, v |-> Str(1)]}
       [] method \in {"inspectAsync", "inspectErrAsync"} ->
            {[m |-> m, v |-> FnArg(f, FALSE)] : f \in {"noop", "ret1"}}
       [] OTHER -> {[m |-> m, v |-> Undefined]}

\* the program builds its async container
Construct(op, arg, r) ==
  /\ Len(prog) = 1
  /\ Commit(r.m)
  /\ prog' = Append(prog, Called(op, Undefined, arg, "ret", r.v))
  /\ UNCHANGED last

\* safe called with a function instead of the promise
SafeFn(op, fn, mapErr, r) ==
  /\ Len(prog) = 1
  /\ SourceType = "T"
  /\ heap' = r.h
  /\ prog' = Append(prog, Called(op, mapErr, fn, r.out, r.v))
  /\ UNCHANGED <<last, promises, jobs, log>>

FulfilSource ==
  /\ promises[1].state = "pending"
  /\ \E s \in SourceValues(heap, SourceType) :
       Commit(SettlePromise([Machine EXCEPT !.h = s.h], 1, "fulfilled", s.v))
  /\ UNCHANGED <<last, prog>>

RejectSource ==
  /\ promises[1].state = "pending"
  /\ \E s \in Rejections(heap, SourceType) :
       Commit(SettlePromise([Machine EXCEPT !.h = s.h], 1, "rejected", s.v))
  /\ UNCHANGED <<last, prog>>

\* the promises a call created, taking the machine from before to after
Made(before, after) == (Len(before.ps) + 1)..Len(after.ps)

\* one more method call on one of the async containers
CallMethod ==
  /\ Len(prog) \in 2..(MaxCalls + 1)
  /\ \E w \in Receivers :
       \E method \in Methods(w) :
         \E a \in Args(Machine, heap[w].cls, method) :
           LET site == Len(prog) + 1
               r == IF heap[w].cls = "OptionTypeAsync"
                    THEN OptionTypeAsync_method(a.m, w, method, a.v, site)
                    ELSE ResultTypeAsync_method(a.m, w, method, a.v, site)
           IN /\ Commit(r.m)
              /\ prog' = Append(prog, Called(method, Ref(w), a.v, "ret", r.v)
                                        @@ [made |-> Made(a.m, r.m)])
  /\ UNCHANGED last

\* await w: the promise the awaiting code waits on; awaiting it handles it
Await ==
  /\ Len(prog) \in 2..(MaxCalls + 1)
  /\ \E w \in Receivers :
       LET r == PromiseResolve(Machine, Ref(w))
       IN /\ Commit([r.m EXCEPT !.ps[r.v.n].handled = TRUE])
          /\ prog' = Append(prog, Called("await", Ref(w), Undefined, "ret", r.v))
  /\ UNCHANGED last

\* the synchronous unwrap and expect, called on the Option the source
\* fulfilled with
SyncOps == {"Option.unwrap", "Option.expect"}

SyncCall ==
  /\ Len(prog) \in 2..(MaxCalls + 1)
  /\ SourceType = "Option<T>"
  /\ promises[1].state = "fulfilled"
  /\ \E op \in SyncOps :
       LET c == promises[1].value
           msg == IF op = "Option.expect" THEN Str(1) ELSE Undefined
           r == IF op = "Option.expect" THEN Option_expect(heap, c.n, msg)
                ELSE Option_unwrap(heap, c.n)
       IN /\ heap' = r.h
          /\ prog' = Append(prog, Called(op, c, msg, r.out, r.v))
  /\ UNCHANGED <<last, promises, jobs, log>>

\* a function handed to then is run with the settled value
RunHandler(m, c, x) ==
  CASE c.of = "option" -> OptionCallback(m, c, x)
    [] c.of = "result" -> ResultCallback(m, c, x)
    [] c.code = "resolve" ->
         [m |-> ResolvePromise(m, c.env.n, x), out |-> "ret", v |-> Undefined]
    [] c.code = "reject" ->
         [m |-> SettlePromise(m, c.env.n, "rejected", x), out |-> "ret", v |-> Undefined]

\* the job at the head of the queue runs: a reaction settles its derived
\* promise with what its function returns or throws; a thenable is asked to
\* call the resolving functions of the promise that follows it
RunJob ==
  /\ jobs # <<>>
  /\ LET j == Head(jobs)
         m == [Machine EXCEPT !.jobs = Tail(@)]
     IN Commit(
          IF j.type = "thenable"
          THEN LET res == Lambda("promise", "resolve", Promise(j.target))
                   rej == Lambda("promise", "reject", Promise(j.target))
               IN IF j.thenable.k = "promise" THEN Then(m, j.thenable.n, res, rej).m
                  ELSE Async_then(m, j.thenable.n, res, rej).m
          ELSE IF j.handler.code = "undefined"
               THEN SettlePromise(m, j.target, j.state, j.arg)
               ELSE LET r == RunHandler(m, j.handler, j.arg) IN
                      IF r.out = "throw" THEN SettlePromise(r.m, j.target, "rejected", r.v)
                      ELSE ResolvePromise(r.m, j.target, r.v))
  /\ UNCHANGED <<last, prog>>

NextAsync ==
  \/ SourceType = "T" /\ Construct("Option.safe", Undefined, Option_safePromise(Machine, Promise(1)))
  \/ \E mapErr \in {"undefined", "inc"} :
       SourceType = "T" /\ Construct("Result.safe", FnVal(mapErr),
                                     Result_safePromise(Machine, Promise(1), FnVal(mapErr)))
  \/ SourceType \in {"Option<T>", "Option<Option<T>>"}
       /\ Construct("Option.unsafe", Undefined, Option_unsafe(Machine, Promise(1)))
  \/ SourceType \in {"Result<T>", "Result<Result<T>>"}
       /\ Construct("Result.unsafe", Undefined, Result_unsafe(Machine, Promise(1)))
  \/ \E fn \in {"ret1", "throws"} :
       SafeFn("Option.safe(fn)", FnVal(fn), Undefined, Option_safe(heap, fn))
  \/ \E fn \in {"ret1", "throws"}, mapErr \in {"undefined", "inc"} :
       SafeFn("Result.safe(fn)", FnVal(fn), FnVal(mapErr), Result_safe(heap, fn, mapErr))
  \/ FulfilSource
  \/ RejectSource
  \/ CallMethod
  \/ SyncCall
  \/ Await
  \/ RunJob

SpecAsync == InitAsync /\ [][NextAsync]_vars

(***************************************************************************)
(* Claims about the match engine.                                           *)
(***************************************************************************)
\* what a result node yields to the caller of match
Yield(node, async) ==
  IF node.kind = "fn" /\ async THEN PromiseOfLabel(node.id) ELSE Label(node.id)

\* the pairs of a chained specification whose pattern matches val
Matching(h, spec, val) ==
  {i \in 1..Len(spec.pairs) : matches(h, spec.pairs[i].pat, val).ok}

\* C3: a chained match produces the result of the first pair, in declaration
\* order, whose pattern matches the subject: a later pair that also matches is
\* never selected, and the trailing default is used only when no pair matches.
\* On [[5, "five"], [(x) => x < 10, "lt10"], default]: 5 gives "five", 7 gives
\* "lt10", 12 the default.
C3_FirstMatchWins ==
  (last.op = "match" /\ last.arg.spec.kind = "chained") =>
    LET spec == last.arg.spec
        M == Matching(heap, spec, last.this)
    IN /\ M # {} =>
            \E i \in M :
              /\ \A j \in M : i <= j
              /\ last.out = "ret"
              /\ last.v = Yield(spec.pairs[i].res, last.arg.async)
       /\ (last.out = "ret" /\ last.v = Yield(FnNode(0), last.arg.async)) =>
            (M = {} /\ spec.bare.kind = "fn")
       /\ spec = ChainedExample =>
            /\ last.this = Num(5) => last.v = Label(1)
            /\ last.this = Num(7) => last.v = Label(2)
            /\ last.this = Num(12) => last.v = Yield(FnNode(0), last.arg.async)

\* 5 matches both the literal 5 and x < 10, and the literal's result came out
C3_Witness ==
  /\ last.op = "match"
  /\ last.arg.spec = ChainedExample
  /\ last.this = Num(5)
  /\ Matching(heap, last.arg.spec, last.this) = {1, 2}
  /\ last.v = Label(1)

\* the fallback in force where the walk of a specification stops: enclosing is
\* the fallback of the nearest enclosing level that declares one
RECURSIVE Resolve(_, _, _, _)
Resolve(h, val, spec, enclosing) ==
  LET stop(d) == IF d.kind = "fn" THEN [kind |-> "default", node |-> d]
                 ELSE [kind |-> "exhausted", node |-> Absent]
  IN IF spec.kind = "chained"
     THEN LET M == Matching(h, spec, val) IN
            IF M # {}
            THEN [kind |-> "branch",
                  node |-> spec.pairs[CHOOSE i \in M : \A j \in M : i <= j].res]
            ELSE stop(IF spec.bare.kind = "fn" THEN spec.bare ELSE enclosing)
     ELSE LET d == IF spec.def.kind = "fn" THEN spec.def ELSE enclosing
              br == BranchFor(spec, TagOf(h, val))
          IN IF br.kind = "absent" THEN stop(d)
             ELSE IF br.kind = "fn" THEN [kind |-> "branch", node |-> br]
             ELSE Resolve(h, h[val.n].Val, br, d)

\* the subject Ok(Some(Err(e))), Ok(None), Err(e)
IsOkSomeErr(h, v) ==
  /\ TagOf(h, v) = "Ok"
  /\ TagOf(h, h[v.n].Val) = "Some"
  /\ TagOf(h, h[h[v.n].Val.n].Val) = "Err"

IsOkNone(h, v) == TagOf(h, v) = "Ok" /\ TagOf(h, h[v.n].Val) = "None"

\* C4: in a nested mapped match, a subject whose tag has no branch at some
\* level gets the fallback _ of the nearest enclosing level that declares one,
\* not the outermost one.  With { Ok: { Some: { Ok: f, _: inner } }, _: outer }:
\* Ok(Some(Err(e))) gives inner, Ok(None) and Err(e) give outer.
C4_ClosestDefault ==
  (last.op = "match" /\ last.arg.spec.kind = "mapped") =>
    LET spec == last.arg.spec
        r == Resolve(heap, last.this, spec, Absent)
    IN /\ r.kind = "default" =>
            (last.out = "ret" /\ last.v = Yield(r.node, last.arg.async))
       /\ spec = ClosestExample =>
            /\ IsOkSomeErr(heap, last.this) =>
                 last.v = Yield(FnNode(30), last.arg.async)
            /\ IsOkNone(heap, last.this) =>
                 last.v = Yield(FnNode(10), last.arg.async)
            /\ TagOf(heap, last.this) = "Err" =>
                 last.v = Yield(FnNode(10), last.arg.async)

\* the inner fallback was taken although an outer one is declared too
C4_Witness ==
  /\ last.op = "match"
  /\ last.arg.spec = ClosestExample
  /\ IsOkSomeErr(heap, last.this)
  /\ last.v = Label(30)

\* C5: when no branch, pattern or default applies, match throws Exhausted at
\* the call itself, also when every branch would return a promise; and
\* Exhausted is the only error the engine raises.
C5_ExhaustedSync ==
  last.op = "match" =>
    LET r == Resolve(heap, last.this, last.arg.spec, Absent) IN
      /\ r.kind = "exhausted" => (last.out = "throw" /\ last.v = Exhausted)
      /\ last.out = "throw" => (r.kind = "exhausted" /\ last.v = Exhausted)
      /\ last.out \in {"ret", "throw"}

\* an exhausted match whose branches are all async functions
C5_Witness ==
  /\ last.op = "match"
  /\ last.arg.async
  /\ last.arg.spec = Mapped(FnNode(11), Absent, Absent, Absent, Absent)
  /\ TagOf(heap, last.this) = "None"
  /\ last.out = "throw"
  /\ last.v = Exhausted

PatternOf == last.arg.spec.pairs[1].pat
Hit == last.out = "ret" /\ last.v = Label(1)
Missed == last.out = "ret" /\ last.v = Label(0)

\* no function of a pattern was called: the only call is that of the default
NoPatternFunctionCalled == \A i \in DOMAIN last.calls : last.calls[i].f = "branch"

\* what the rules for patterns say, rule by rule; inside is true below a
\* container pattern
RECURSIVE Fits(_, _, _, _)
Fits(h, pat, val, inside) ==
  CASE pat.p = "_" -> TRUE
    [] pat.p = "lit" -> val = pat.v
    [] pat.p = "pred" -> ~inside /\ TestPred(pat.f, val)
    [] pat.p = "fn" -> val.k = "function" /\ val.n = pat.id
    [] pat.p = "monad" ->
         /\ IsRef(val)
         /\ h[val.n].cls = pat.cls
         /\ h[val.n].T = pat.T
         /\ (pat.inner = Wildcard \/ Fits(h, pat.inner, h[val.n].Val, TRUE))
    [] pat.p = "array" ->
         /\ val.k = "array"
         /\ \A i \in 1..Len(pat.at) :
              i <= Len(val.items) /\ Fits(h, pat.at[i], val.items[i], inside)
    [] pat.p = "record" ->
         /\ val.k = "record"
         /\ \A key \in DOMAIN pat.at :
              key \in DOMAIN val.fields /\ Fits(h, pat.at[key], val.fields[key], inside)

\* C22: a function subject g matches Fn(g) and no Fn of another function, at
\* top level and inside Some(...), and a plain function inside a container
\* pattern does not match; no function of the pattern or of the subject is
\* called.
C22_FunctionsComparedNotCalled ==
  last.op = "match" =>
    LET pat == PatternOf
        payload == IF IsOption(heap, last.this) /\ heap[last.this.n].T
                   THEN heap[last.this.n].Val ELSE Undefined
    IN /\ pat.p = "fn" =>
            /\ Hit <=> last.this = Func(pat.id)
            /\ NoPatternFunctionCalled
       /\ (pat.p = "monad" /\ pat.inner.p = "fn") =>
            /\ Hit <=> payload = Func(pat.inner.id)
            /\ NoPatternFunctionCalled
       /\ pat \in {SomeP(RecP(<<"a">>, [a |-> ArrP(<<Pred("nested")>>)])),
                   SomeP(Pred("nested"))} =>
            Missed /\ NoPatternFunctionCalled
       /\ Hit \/ Missed

\* Some(second) has matched Some(Fn(second)) with no function called
C22_Witness ==
  /\ last.op = "match"
  /\ PatternOf = SomeP(FnP(2))
  /\ IsOption(heap, last.this)
  /\ heap[last.this.n].Val = Func(2)
  /\ Hit
  /\ last.calls = <<>>

\* C23: an array pattern matches iff the subject is an array with, at each
\* index of the pattern, an element the pattern's element matches, a
\* wildcard included; a record pattern iff the subject has each declared key
\* with a value the key's pattern matches.  Further elements and keys of the
\* subject are ignored.
C23_ArraysAndRecordsPartial ==
  (last.op = "match" /\ PatternOf.p \in {"array", "record"}) =>
    /\ Hit <=> Fits(heap, PatternOf, last.this, FALSE)
    /\ Missed <=> ~Fits(heap, PatternOf, last.this, FALSE)

\* [3, 6, 9] has not matched [_, 6, 9, _]
C23_Witness ==
  /\ last.op = "match"
  /\ PatternOf = ArrP(<<Wildcard, Lit(Num(6)), Lit(Num(9)), Wildcard>>)
  /\ last.this = ArrayVal(<<Num(3), Num(6), Num(9)>>)
  /\ Missed

\* C24: a container pattern matches iff the subject is a container of the
\* same family and variant whose payload the pattern's payload, unless it is
\* the wildcard, matches in turn.
C24_ContainerPatterns ==
  (last.op = "match" /\ PatternOf.p = "monad") =>
    LET pat == PatternOf IN
      /\ Hit <=> /\ IsRef(last.this)
                 /\ heap[last.this.n].cls = pat.cls
                 /\ heap[last.this.n].T = pat.T
                 /\ (pat.inner = Wildcard
                       \/ Fits(heap, pat.inner, heap[last.this.n].Val, TRUE))
      /\ ~Hit => Missed

\* Ok(Some(Err("err"))) has matched the pattern Ok(Some(Err("err")))
C24_Witness ==
  /\ last.op = "match"
  /\ PatternOf = OkP(SomeP(ErrP(Lit(Str(1)))))
  /\ IsResult(heap, last.this)
  /\ heap[last.this.n].T
  /\ IsOption(heap, heap[last.this.n].Val)
  /\ Hit

(***************************************************************************)
(* Claims about the async containers.                                       *)
(***************************************************************************)
\* nothing is left to run and the source has settled
Quiescent == jobs = <<>> /\ promises[1].state # "pending"

\* how the promise of v, a promise or an async container, has settled
Settled(v) == promises[IF v.k = "promise" THEN v.n ELSE heap[v.n].Prom.n]

\* v is a container of class cls, variant T, holding val
Holds(v, cls, T, val) ==
  /\ IsRef(v)
  /\ heap[v.n].cls = cls
  /\ heap[v.n].T = T
  /\ heap[v.n].Val = val

C7_UnsafeMirrors ==
  Len(prog) >= 2 /\ prog[2].op \in {"Option.unsafe", "Result.unsafe"} /\ Quiescent =>
    \A i \in 3..Len(prog) :
      prog[i].this = prog[2].v =>
        /\ prog[i].op = "await" =>
             /\ Settled(prog[i].v).state = promises[1].state
             /\ Settled(prog[i].v).value = promises[1].value
        /\ prog[i].op = "unwrapAsync" /\ promises[1].state = "rejected" =>
             /\ Settled(prog[i].v).state = "rejected"
             /\ Settled(prog[i].v).value = promises[1].value
        /\ prog[i].op = "unwrapAsync" /\ promises[1].state = "fulfilled"
             /\ heap[promises[1].value.n].T =>
             /\ Settled(prog[i].v).state = "fulfilled"
             /\ Settled(prog[i].v).value = heap[promises[1].value.n].Val

\* p fulfilled with an Ok and the awaited container yielded that Ok
C7_Witness ==
  /\ Quiescent
  /\ \E i \in 3..Len(prog) :
       /\ prog[2].op = "Result.unsafe"
       /\ prog[i].op = "await"
       /\ prog[i].this = prog[2].v
       /\ promises[1].state = "fulfilled"
       /\ Settled(prog[i].v).state = "fulfilled"
       /\ Settled(prog[i].v).value = promises[1].value
       /\ Holds(promises[1].value, "ResultType", TRUE, Num(1))

\* the invocations of the callback passed by program call i
Invocations(i) == {k \in 1..Len(log) : log[k].site = i}

\* C8: the f of a.andThenAsync(f) is invoked only once a's promise has
\* fulfilled with Some or Ok, with the payload, and at most once; when
\* everything has run it was invoked exactly once if a settled to Some or Ok,
\* and never otherwise, the result then fulfilling with the None or Err a
\* fulfilled with.
C8_AndThenAfterSettlement ==
  \A i \in {j \in 3..Len(prog) : prog[j].op = "andThenAsync"} :
    LET a == Settled(prog[i].this)
        success == a.state = "fulfilled" /\ heap[a.value.n].T
    IN /\ \A k \in Invocations(i) : success /\ log[k].arg = heap[a.value.n].Val
       /\ Cardinality(Invocations(i)) <= 1
       /\ Quiescent /\ success => Cardinality(Invocations(i)) = 1
       /\ Quiescent /\ a.state = "fulfilled" /\ ~success =>
            /\ Settled(prog[i].v).state = "fulfilled"
            /\ Settled(prog[i].v).value = a.value

\* andThenAsync was called on a container that settled to Some or Ok and its
\* f has run once
C8_Witness ==
  /\ Quiescent
  /\ \E i \in 3..Len(prog) :
       /\ prog[i].op = "andThenAsync"
       /\ Settled(prog[i].this).state = "fulfilled"
       /\ heap[Settled(prog[i].this).value.n].T
       /\ Cardinality(Invocations(i)) = 1

\* v is an Error whose message is msg
IsErrorWith(v, msg) == IsError(heap, v) /\ heap[v.n].Val = msg

\* C15: unwrap() on None throws an Error with the EmptyValue message and
\* expect(msg) on None an Error with message msg; unwrapAsync() and
\* expectAsync(msg) return a promise in every case, which rejects with an
\* Error of that same message when the container settled to None; on Some
\* the synchronous calls return the payload and the promises fulfil with it.
C15_UnwrapOnAbsent ==
  \A i \in 3..Len(prog) :
    LET c == prog[i]
        msg == IF c.op \in {"Option.expect", "expectAsync"} THEN Str(1) ELSE EmptyValueMsg
    IN /\ c.op \in SyncOps =>
            IF heap[c.this.n].T THEN c.out = "ret" /\ c.v = heap[c.this.n].Val
            ELSE c.out = "throw" /\ IsErrorWith(c.v, msg)
       /\ c.op \in {"unwrapAsync", "expectAsync"} /\ heap[c.this.n].cls = "OptionTypeAsync" =>
            /\ c.out = "ret"
            /\ c.v.k = "promise"
            /\ Quiescent /\ Settled(c.this).state = "fulfilled" =>
                 LET o == heap[Settled(c.this).value.n] IN
                   IF o.T
                   THEN Settled(c.v).state = "fulfilled" /\ Settled(c.v).value = o.Val
                   ELSE Settled(c.v).state = "rejected" /\ IsErrorWith(Settled(c.v).value, msg)

\* expectAsync(msg) on a container that settled to None has rejected, and
\* expect(msg) on that None has thrown
C15_Witness ==
  /\ Quiescent
  /\ Len(prog) = 4
  /\ \E i, j \in 3..4 :
       /\ prog[i].op = "expectAsync"
       /\ Settled(prog[i].v).state = "rejected"
       /\ prog[j].op = "Option.expect"
       /\ prog[j].out = "throw"
       /\ Settled(prog[i].this).value = prog[j].this

\* the async containers
AsyncContainers ==
  {w \in DOMAIN heap : heap[w].cls \in {"OptionTypeAsync", "ResultTypeAsync"}}

\* a step in which the program calls a method of an async container
MethodCalled ==
  /\ Len(prog') = Len(prog) + 1
  /\ Len(prog) >= 2
  /\ prog'[Len(prog')].op \notin {"await"} \cup SyncOps

\* no async container changes its promise and no settled promise changes
NothingReplaced ==
  /\ \A w \in AsyncContainers : heap'[w] = heap[w]
  /\ \A p \in DOMAIN promises :
       promises[p].state # "pending" =>
         /\ promises'[p].state = promises[p].state
         /\ promises'[p].value = promises[p].value

\* the call derives a promise that did not exist
DerivesNewPromise == MethodCalled => Len(promises') > Len(promises)

\* the call returns a container that did not exist, around a new promise
ReturnsNewWrapper ==
  MethodCalled =>
    LET v == prog'[Len(prog')].v IN
      /\ IsRef(v)
      /\ v.n \notin DOMAIN heap
      /\ heap'[v.n].cls \in {"OptionTypeAsync", "ResultTypeAsync"}
      /\ heap'[v.n].Prom.n \notin DOMAIN promises

\* every callback a chain invoked was given the payload its receiver settled to
ChainsObserveOriginal ==
  \A k \in 1..Len(log) :
    LET a == Settled(prog[log[k].site].this)
    IN a.state = "fulfilled" /\ log[k].arg = heap[a.value.n].Val

\* the settled content of v: variant and payload, whatever the reference
RECURSIVE Content(_, _)
Content(h, v) ==
  IF IsRef(v)
  THEN [cls |-> h[v.n].cls, T |-> h[v.n].T, Val |-> Content(h, h[v.n].Val)]
  ELSE [cls |-> "plain", T |-> TRUE, Val |-> v]

\* the argument of a call by content: a function by name, a container by what
\* it holds or settles to
ArgContent(arg) ==
  IF IsRef(arg)
  THEN IF arg.n \in AsyncContainers
       THEN [async |-> TRUE, c |-> Content(heap, Settled(arg).value)]
       ELSE [async |-> FALSE, c |-> Content(heap, arg)]
  ELSE [async |-> FALSE, c |-> arg]

\* two calls of the same method with the same argument on one container end
\* with the same result
ChainsIndependent ==
  Quiescent =>
    \A i, j \in 3..Len(prog) :
      /\ prog[i].this = prog[j].this
      /\ prog[i].op = prog[j].op
      /\ prog[i].op \notin {"await"} \cup SyncOps
      /\ ArgContent(prog[i].arg) = ArgContent(prog[j].arg)
      => /\ Settled(prog[i].v).state = Settled(prog[j].v).state
         /\ Content(heap, Settled(prog[i].v).value) = Content(heap, Settled(prog[j].v).value)

SyncOp(h, c, method, arg) ==
  LET b == IF IsRef(arg) /\ arg.n \in AsyncContainers THEN Settled(arg).value ELSE arg
  IN IF h[c].cls = "OptionType"
     THEN CASE method = "mapAsync" -> Option_map(h, c, arg.name)
            [] method = "filterAsync" -> Option_filter(h, c, arg.name)
            [] method = "flattenAsync" -> Option_flatten(h, c)
            [] method = "andAsync" -> Option_and(h, c, b)
            [] method = "andThenAsync" -> Option_andThen(h, c, arg.name)
            [] method = "orAsync" -> Option_or(h, c, b)
            [] method = "orElseAsync" -> Option_orElse(h, c, arg.name)
            [] method = "okOrAsync" -> Option_okOr(h, c, arg)
            [] method = "unwrapOrAsync" -> Option_unwrapOr(h, c, arg)
            [] method = "isSomeAndAsync" -> Option_isSomeAnd(h, c, arg.name)
            [] method = "isSomeAsync" -> Ret(h, Bool(h[c].T), <<>>)
     ELSE CASE method = "mapAsync" -> Result_map(h, c, arg.name)
            [] method = "filterAsync" -> Result_filter(h, c, arg.name)
            [] method = "flattenAsync" -> Result_flatten(h, c)
            [] method = "andAsync" -> Result_and(h, c, b)
            [] method = "andThenAsync" -> Result_andThen(h, c, arg.name)
            [] method = "orAsync" -> Result_or(h, c, b)
            [] method = "orElseAsync" -> Result_orElse(h, c, arg.name)
            [] method = "mapErrAsync" -> Result_mapErr(h, c, arg.name)
            [] method = "okAsync" -> Result_ok(h, c)
            [] method = "unwrapOrAsync" -> Result_unwrapOr(h, c, arg)
            [] method = "isOkAndAsync" -> Result_isOkAnd(h, c, arg.name)
            [] method = "isOkAsync" -> Ret(h, Bool(Result_isOk(h, c)), <<>>)

\* C10: when the promise of an async container A fulfils with c, what
\* A.opAsync(args) settles to has the variant and payload, or is the plain
\* value, that c.op(args) returns, for map, filter, flatten, and, andThen, or,
\* orElse, mapErr, ok, okOr, unwrapOr, isSomeAnd and isOkAnd, with plain and
\* promise-returning functions and with containers and async containers (an
\* async container passed as the argument being one that fulfilled).
C10_AsyncRefinesSync ==
  Quiescent =>
    \A i \in 3..Len(prog) :
      /\ prog[i].op \notin {"await", "unwrapAsync", "expectAsync", "inspectAsync",
                           "inspectErrAsync"} \cup SyncOps
      /\ Settled(prog[i].this).state = "fulfilled"
      /\ (IsRef(prog[i].arg) /\ prog[i].arg.n \in AsyncContainers)
           => Settled(prog[i].arg).state = "fulfilled"
      => LET c == Settled(prog[i].this).value.n
             r == SyncOp(heap, c, prog[i].op, prog[i].arg)
             got == Settled(prog[i].v)
         IN /\ got.state = (IF r.out = "ret" THEN "fulfilled" ELSE "rejected")
            /\ Content(heap, got.value) = Content(r.h, r.v)

\* andAsync with an async container on a container that settled to Some
C10_Witness ==
  /\ Quiescent
  /\ \E i \in 3..Len(prog) :
       /\ prog[i].op = "andAsync"
       /\ IsRef(prog[i].arg)
       /\ prog[i].arg.n \in AsyncContainers
       /\ Settled(prog[i].this).state = "fulfilled"
       /\ Holds(Settled(prog[i].this).value, "OptionType", TRUE, Num(0))
       /\ Holds(Settled(prog[i].v).value, "OptionType", TRUE, Num(1))

(***************************************************************************)
(* Claims about rejection, inspection and short-circuiting of the async    *)
(* containers.                                                              *)
(***************************************************************************)
InspectAsyncOps == {"inspectAsync", "inspectErrAsync"}

\* the calls of inspectAsync and inspectErrAsync whose receiver's promise has
\* rejected
InspectedRejections ==
  {i \in 3..Len(prog) :
     prog[i].op \in InspectAsyncOps /\ Settled(prog[i].this).state = "rejected"}

\* promise p was rejected and no then was ever called on it
UnhandledRejection(p) == promises[p].state = "rejected" /\ ~promises[p].handled

\* the call returned its receiver and its f has not been invoked
IgnoredByCaller(i) ==
  /\ prog[i].out = "ret"
  /\ prog[i].v = prog[i].this
  /\ Invocations(i) = {}

\* C27: inspectAsync(f) and inspectErrAsync(f) on an async container whose
\* promise rejects ignore the error: the call returns without throwing, f is
\* not invoked, and no promise the call derived ends as an unhandled
\* rejection, for OptionAsync as for ResultAsync.
C27_InspectAsyncIgnoresRejection ==
  \A i \in InspectedRejections :
    /\ IgnoredByCaller(i)
    /\ \A p \in prog[i].made : ~UnhandledRejection(p)

\* C27, as far as the code goes: the call returns its receiver and f is not
\* invoked for both classes; the derived promises of ResultTypeAsync, which
\* end in catch(() => undefined), are never unhandled rejections.
C27_ResultInspectAsyncIgnoresRejection ==
  \A i \in InspectedRejections :
    /\ IgnoredByCaller(i)
    /\ heap[prog[i].this.n].cls = "ResultTypeAsync"
         => \A p \in prog[i].made : ~UnhandledRejection(p)

\* Option.unsafe(p).inspectAsync(f) with p rejected, all jobs run: the promise
\* of this.then((opt) => opt.inspect(f)) is rejected and nothing handles it
C27_Witness ==
  /\ Quiescent
  /\ \E i \in InspectedRejections :
       /\ prog[2].op = "Option.unsafe"
       /\ prog[i].this = prog[2].v
       /\ \E p \in prog[i].made : UnhandledRejection(p)

\* the awaits of the container that the call i of inspectAsync returned
AwaitsOf(i) ==
  {j \in (i + 1)..Len(prog) : prog[j].op = "await" /\ prog[j].this = prog[i].v}

\* f of call i has been invoked exactly once, with the payload of container c
InvokedOnceWithPayload(i, c) ==
  /\ Cardinality(Invocations(i)) = 1
  /\ \A k \in Invocations(i) :
       log[k].f = prog[i].arg.name /\ log[k].arg = heap[c.n].Val

\* C28: when the container returned by A.inspectAsync(f) is awaited, then once
\* the await has its value f has been invoked exactly once with the payload
\* if A settled to Some or Ok and not at all if A settled to None or Err, and
\* the value awaited is the container A's promise fulfilled with, whatever f
\* returns.
C28_InspectedBeforeAwaitCompletes ==
  \A i \in 3..Len(prog) :
    prog[i].op = "inspectAsync" =>
      \A j \in AwaitsOf(i) :
        promises[prog[j].v.n].state = "fulfilled" =>
          LET c == promises[prog[j].v.n].value IN
            /\ Settled(prog[i].this).state = "fulfilled"
            /\ c = Settled(prog[i].this).value
            /\ IF heap[c.n].T THEN InvokedOnceWithPayload(i, c)
               ELSE Invocations(i) = {}

\* Result.unsafe(p).inspectAsync(() => 1) awaited, p fulfilled with Ok(1): the
\* await gave that Ok(1) and f ran once with 1
C28_Witness ==
  \E i \in 3..Len(prog) :
    /\ prog[i].op = "inspectAsync"
    /\ prog[i].arg.name = "ret1"
    /\ \E j \in AwaitsOf(i) :
         /\ promises[prog[j].v.n].state = "fulfilled"
         /\ Holds(promises[prog[j].v.n].value, "ResultType", TRUE, Num(1))
         /\ promises[prog[j].v.n].value = promises[1].value
         /\ InvokedOnceWithPayload(i, promises[prog[j].v.n].value)

\* the combinators of the async containers other than inspectAsync and
\* inspectErrAsync
Combinators ==
  {"mapAsync", "mapErrAsync", "andThenAsync", "andAsync", "orAsync", "orElseAsync",
   "filterAsync", "flattenAsync", "okAsync", "okOrAsync", "unwrapOrAsync",
   "unwrapAsync", "expectAsync", "isOkAsync", "isSomeAsync", "isOkAndAsync",
   "isSomeAndAsync"}

\* call i is a combinator called on a container whose promise has rejected
OnRejected(i) ==
  prog[i].op \in Combinators /\ Settled(prog[i].this).state = "rejected"

\* C29: when the promise of an async container rejects with r, the container
\* or promise that any combinator other than inspect derives from it rejects
\* with r as well, and the callback passed to the combinator is not invoked;
\* orAsync and orElseAsync do not take the rejection for a None or Err.
C29_RejectionPassesThrough ==
  Quiescent =>
    \A i \in 3..Len(prog) :
      OnRejected(i) =>
        /\ Settled(prog[i].v).state = "rejected"
        /\ Settled(prog[i].v).value = Settled(prog[i].this).value
        /\ Invocations(i) = {}

\* Option.unsafe(p).orElseAsync(f).unwrapOrAsync(1) with p rejected with 0:
\* both results rejected with 0 and f was not called
C29_Witness ==
  /\ Quiescent
  /\ Len(prog) = 4
  /\ prog[2].op = "Option.unsafe"
  /\ promises[1].state = "rejected"
  /\ prog[3].op = "orElseAsync"
  /\ prog[3].this = prog[2].v
  /\ prog[4].op = "unwrapOrAsync"
  /\ prog[4].this = prog[3].v
  /\ Settled(prog[3].v).state = "rejected"
  /\ Settled(prog[4].v).state = "rejected"
  /\ Settled(prog[4].v).value = promises[1].value
  /\ log = <<>>

\* call i passed an async container b to andAsync or orAsync, and the
\* receiver's promise fulfilled with a container that makes the call discard
\* b: a None or Err for andAsync, a Some or Ok for orAsync
DiscardsAlternative(i) ==
  /\ prog[i].op \in {"andAsync", "orAsync"}
  /\ IsRef(prog[i].arg)
  /\ prog[i].arg.n \in AsyncContainers
  /\ Settled(prog[i].this).state = "fulfilled"
  /\ heap[Settled(prog[i].this).value.n].T = (prog[i].op = "orAsync")

\* C30: when a settles to None or Err, a.andAsync(b) fulfils with that very
\* None or Err, and when a settles to Some or Ok, a.orAsync(b) fulfils with
\* a's container, whether the async container b fulfils, rejects or never
\* settles.
C30_ShortCircuitIgnoresAlternative ==
  Quiescent =>
    \A i \in 3..Len(prog) :
      DiscardsAlternative(i) =>
        /\ Settled(prog[i].v).state = "fulfilled"
        /\ Settled(prog[i].v).value = Settled(prog[i].this).value

\* a.andAsync(b) with a settled to Err(0) and b never settling: the result
\* has fulfilled with that Err(0)
C30_Witness ==
  /\ Quiescent
  /\ \E i \in 3..Len(prog) :
       /\ DiscardsAlternative(i)
       /\ prog[i].op = "andAsync"
       /\ Settled(prog[i].arg).state = "pending"
       /\ Settled(prog[i].v).value = promises[1].value
       /\ Holds(Settled(prog[i].v).value, "ResultType", FALSE, Num(0))

\* a.orAsync(b) with a settled to Some and b rejected: the result has
\* fulfilled with a's Some
ShortCircuitPastRejection ==
  /\ Quiescent
  /\ \E i \in 3..Len(prog) :
       /\ DiscardsAlternative(i)
       /\ prog[i].op = "orAsync"
       /\ Settled(prog[i].arg).state = "rejected"
       /\ Settled(prog[i].v).state = "fulfilled"
       /\ heap[Settled(prog[i].v).value.n].T

====
